---- MODULE Spec2Model ----
(***************************************************************************)
(* Model of the pageserver's datadir mapping (pgdatadir_mapping.rs): the   *)
(* key builders, the directory blobs, the public GET functions of          *)
(* DatadirTimeline and the "transaction-like" DatadirTimelineWriter that   *)
(* buffers puts and range deletes and hands them to the timeline in        *)
(* finish().                                                               *)
(*                                                                         *)
(* The lower-level Timeline (get / put / delete / advance_last_record_lsn) *)
(* is not part of these sources; it is modelled from the specification.    *)
(***************************************************************************)
EXTENDS Integers, Sequences, FiniteSets, TLC

---------------------------------------------------------------------------
(* Bounds of the model *)

\* number of bits a u32 is scaled down to (TLC integers are 32-bit signed)
U32Bits == 16
\* begin_record is called at most MaxTxns times in one run
MaxTxns == 2
\* writer operations (put_*, drop_*) that succeed in one run
MaxOps == 2
\* layer files created in one run
MaxCreates == 2
\* cycles a background loop of a tenant completes in one run
MaxCycles == 2

---------------------------------------------------------------------------
(* Program constants *)

U32_MAX == 2 ^ U32Bits - 1

FSM_FORKNUM == 1
VISIBILITYMAP_FORKNUM == 2

\* Lsn(8): the LSN at which create_test_timeline commits init_empty
INIT_LSN == 8
TESTDB == 111
PAGE_SZ == 8192

---------------------------------------------------------------------------
(* Result values: Result<T> of the Rust code *)

Ok(v) == [ok |-> TRUE, val |-> v]
Err(e) == [ok |-> FALSE, val |-> e]

(* bytes::Bytes.  Short blobs (directories, sizes) are sequences of       *)
(* bytes; an 8 KiB page is kept as its length, the byte it is filled with *)
(* and the WAL records that walredo applied on top of it.                 *)
Page(fill) == [len |-> PAGE_SZ, fill |-> fill, recs |-> <<>>]

ZERO_PAGE == Page(0)

TEST_IMG(c) == Page(c)

(* repository::Value *)
Image(img) == [t |-> "Image", img |-> img]
WalRecord(rec) == [t |-> "WalRecord", rec |-> rec]

---------------------------------------------------------------------------
(* Keys: <<field1, field2, field3, field4, field5, field6>>, ordered       *)
(* field-major.                                                            *)

Key(f1, f2, f3, f4, f5, f6) == <<f1, f2, f3, f4, f5, f6>>

\* lexicographic order of two tuples of the same length
SeqLt(a, b) ==
    \E i \in DOMAIN a : a[i] < b[i] /\ \A j \in 1 .. (i - 1) : a[j] = b[j]

KeyLt(a, b) == SeqLt(a, b)
KeyLe(a, b) == a = b \/ SeqLt(a, b)

\* Range<Key>: half-open [start, end)
KeyRange(s, e) == [start |-> s, end |-> e]
RangeContains(r, k) == KeyLe(r.start, k) /\ KeyLt(k, r.end)

RelTag(spcnode, dbnode, relnode, forknum) ==
    [spcnode |-> spcnode, dbnode |-> dbnode, relnode |-> relnode, forknum |-> forknum]

DBDIR_KEY == Key(0, 0, 0, 0, 0, 0)
TWOPHASEDIR_KEY == Key(2, 0, 0, 0, 0, 0)
CONTROLFILE_KEY == Key(3, 0, 0, 0, 0, 0)
CHECKPOINT_KEY == Key(3, 0, 0, 0, 0, 1)

SlruKinds == {"Clog", "MultiXactMembers", "MultiXactOffsets"}
SlruKindField(kind) ==
    CASE kind = "Clog" -> 0
      [] kind = "MultiXactMembers" -> 1
      [] kind = "MultiXactOffsets" -> 2

rel_block_to_key(rel, blknum) ==
    Key(0, rel.spcnode, rel.dbnode, rel.relnode, rel.forknum, blknum)

\* a rel_dir_to_key that builds the key of the relmap file
rel_dir_to_key_as_relmap(spcnode, dbnode) == Key(0, spcnode, dbnode, 0, 0, 0)

rel_dir_to_key(spcnode, dbnode) == Key(0, spcnode, dbnode, 0, 0, 1)

rel_size_to_key(rel) ==
    Key(0, rel.spcnode, rel.dbnode, rel.relnode, rel.forknum, U32_MAX)

slru_dir_to_key(kind) == Key(1, SlruKindField(kind), 0, 0, 0, 0)

rel_key_range(rel) ==
    KeyRange(Key(0, rel.spcnode, rel.dbnode, rel.relnode, rel.forknum, 0),
             Key(0, rel.spcnode, rel.dbnode, rel.relnode, (rel.forknum + 1) % 256, 0))

\* rel.forknum + 1 on a u8: a build with overflow checks panics at forknum
\* 255, a build without them wraps to 0
rel_key_range_built(rel, overflow_checks) ==
    IF overflow_checks /\ rel.forknum = 255
    THEN Err("attempt to add with overflow")
    ELSE Ok(rel_key_range(rel))

relmap_file_key(spcnode, dbnode) == Key(0, spcnode, dbnode, 0, 0, 0)

dbdir_key_range(spcnode, dbnode) ==
    KeyRange(Key(0, spcnode, dbnode, 0, 0, 0),
             Key(0, spcnode, dbnode, U32_MAX, 255, U32_MAX))

slru_block_to_key(kind, segno, blknum) ==
    Key(1, SlruKindField(kind), 1, segno, 0, blknum)

slru_segment_size_to_key(kind, segno) ==
    Key(1, SlruKindField(kind), 1, segno, 0, U32_MAX)

slru_segment_key_range(kind, segno) ==
    KeyRange(Key(1, SlruKindField(kind), segno, 0, 0, 0),
             Key(1, SlruKindField(kind), segno, 0, 1, 0))

twophase_file_key(xid) == Key(2, 0, 0, 0, 0, xid)

\* a range whose end does not move to the next field5 when xid + 1 wraps
twophase_key_range_wrapping(xid) ==
    KeyRange(Key(2, 0, 0, 0, 0, xid), Key(2, 0, 0, 0, 0, (xid + 1) % (U32_MAX + 1)))

\* xid.overflowing_add(1): the sum modulo 2^32 and whether it wrapped
twophase_key_range(xid) ==
    LET next_xid == (xid + 1) % (U32_MAX + 1)
        overflowed == xid = U32_MAX
    IN KeyRange(Key(2, 0, 0, 0, 0, xid),
                Key(2, 0, 0, 0, IF overflowed THEN 1 ELSE 0, next_xid))

---------------------------------------------------------------------------
(* Serialized blobs *)

\* u32::to_le_bytes
to_le_bytes(n) ==
    << n % 256, (n \div 256) % 256, (n \div 65536) % 256, (n \div 16777216) % 256 >>

\* Buf::get_u32_le: the first four bytes, least significant first
get_u32_le(buf) == buf[1] + 256 * buf[2] + 65536 * buf[3] + 16777216 * buf[4]

(* BeSer of a struct holding one HashSet: the element count, then the     *)
(* fields of each element.  Elements are tuples of integers; each integer *)
(* takes one cell of the blob.  The elements are laid out in field-major  *)
(* order (a HashSet iterates in an arbitrary order; des() rebuilds the    *)
(* set whatever the order).                                               *)
MinTuple(S) == CHOOSE m \in S : \A o \in S : o = m \/ SeqLt(m, o)

RECURSIVE Flatten(_)
Flatten(S) ==
    IF S = {} THEN <<>>
    ELSE LET m == MinTuple(S) IN m \o Flatten(S \ {m})

ser(set) == <<Cardinality(set)>> \o Flatten(set)

\* des() of a blob whose elements have `arity` fields; fails on a blob of
\* the wrong length
des(buf, arity) ==
    IF Len(buf) = 0 \/ Len(buf) # 1 + buf[1] * arity
    THEN Err("DeserializeError")
    ELSE Ok({ SubSeq(buf, 2 + (i - 1) * arity, 1 + i * arity) : i \in 1 .. buf[1] })

DbDirectory_ser(dbs) == ser(dbs)
DbDirectory_des(buf) == des(buf, 2)
RelDirectory_ser(rels) == ser(rels)
RelDirectory_des(buf) == des(buf, 2)
TwoPhaseDirectory_ser(xids) == ser({ <<x>> : x \in xids })
SlruSegmentDirectory_ser(segments) == ser({ <<s>> : s \in segments })

\* des() of a directory whose elements are single integers
des1(buf) ==
    LET d == des(buf, 1) IN
    IF d.ok THEN Ok({ e[1] : e \in d.val }) ELSE d

TwoPhaseDirectory_des(buf) == des1(buf)
SlruSegmentDirectory_des(buf) == des1(buf)

---------------------------------------------------------------------------
(* The lower-level Timeline, modelled from the specification.             *)
(*   puts : the versions put, a function from <<key, lsn>> to the Value   *)
(*   dels : the range deletes, [range, lsn]                               *)
(*   last_record_lsn                                                      *)

EmptyTimeline == [puts |-> <<>>, dels |-> {}, last_record_lsn |-> 0]

\* the LSNs of the versions of key at or below lsn
Versions(tl, key, lsn) ==
    { d[2] : d \in { e \in DOMAIN tl.puts : e[1] = key /\ e[2] <= lsn } }

\* a range delete at d.lsn removes the versions older than d.lsn
Deleted(tl, key, vlsn, lsn) ==
    \E d \in tl.dels : RangeContains(d.range, key) /\ vlsn < d.lsn /\ d.lsn <= lsn

\* walredo: the page that results from applying a WAL record to a base image
WalRedo(base, rec) == [base EXCEPT !.recs = Append(@, rec)]

\* the newest version of key at or below vmax, as a reader at lsn sees it
RECURSIVE TlGetAt(_, _, _, _)
TlGetAt(tl, key, vmax, lsn) ==
    LET vs == Versions(tl, key, vmax) IN
    IF vs = {} THEN Err("KeyNotFound")
    ELSE LET vlsn == CHOOSE v \in vs : \A o \in vs : o <= v
             val == tl.puts[<<key, vlsn>>]
         IN IF Deleted(tl, key, vlsn, lsn) THEN Err("KeyNotFound")
            ELSE IF val.t = "Image" THEN Ok(val.img)
            ELSE LET base == TlGetAt(tl, key, vlsn - 1, lsn) IN
                 IF base.ok THEN Ok(WalRedo(base.val, val.rec))
                 ELSE Err("NoBaseImage")

\* Timeline::get(key, lsn)
TlGet(tl, key, lsn) == TlGetAt(tl, key, lsn, lsn)

\* TimelineWriter::put(key, lsn, value): the timeline is append-only in LSN
\* order and rejects a modification at or below its last-record LSN
TlPut(tl, key, lsn, val) ==
    IF lsn <= tl.last_record_lsn THEN Err("LsnNotAfterLastRecord")
    ELSE Ok([tl EXCEPT !.puts =
                [d \in (DOMAIN @) \cup {<<key, lsn>>} |->
                    IF d = <<key, lsn>> THEN val ELSE @[d]]])

\* TimelineWriter::delete(key_range, lsn)
TlDelete(tl, range, lsn) ==
    IF lsn <= tl.last_record_lsn THEN Err("LsnNotAfterLastRecord")
    ELSE Ok([tl EXCEPT !.dels = @ \cup {[range |-> range, lsn |-> lsn]}])

\* TimelineWriter::advance_last_record_lsn(lsn): strictly increasing, the
\* timeline refuses an LSN that is not above its last-record LSN
TlAdvance(tl, lsn) ==
    IF lsn <= tl.last_record_lsn THEN Err("LsnNotAfterLastRecord")
    ELSE Ok([tl EXCEPT !.last_record_lsn = lsn])

---------------------------------------------------------------------------
(* Public GET functions of DatadirTimeline.  Each returns its Result and  *)
(* the set of keys it read from the timeline.                             *)

WithReads(res, reads) == [ok |-> res.ok, val |-> res.val, reads |-> reads]

\* Does relation exist?
get_rel_exists(tl, tag, lsn) ==
    LET key == rel_dir_to_key(tag.spcnode, tag.dbnode)
        buf == TlGet(tl, key, lsn)
    IN IF ~buf.ok THEN WithReads(buf, {key})
       ELSE LET dir == RelDirectory_des(buf.val) IN
            IF ~dir.ok THEN WithReads(dir, {key})
            ELSE WithReads(Ok(<<tag.relnode, tag.forknum>> \in dir.val), {key})

\* get_rel_size that tolerates a missing FSM fork only
get_rel_size_fsm_only(tl, tag, lsn) ==
    LET ex == IF tag.forknum = FSM_FORKNUM
              THEN get_rel_exists(tl, tag, lsn)
              ELSE WithReads(Ok(TRUE), {})
    IN IF ~ex.ok THEN ex
       ELSE IF ~ex.val THEN WithReads(Ok(0), ex.reads)
       ELSE LET key == rel_size_to_key(tag)
                buf == TlGet(tl, key, lsn)
            IN IF ~buf.ok THEN WithReads(buf, ex.reads \cup {key})
               ELSE WithReads(Ok(get_u32_le(buf.val)), ex.reads \cup {key})

\* Get size of a relation file
get_rel_size(tl, tag, lsn) ==
    LET ex == IF tag.forknum = FSM_FORKNUM \/ tag.forknum = VISIBILITYMAP_FORKNUM
              THEN get_rel_exists(tl, tag, lsn)
              ELSE WithReads(Ok(TRUE), {})
    IN IF ~ex.ok THEN ex
       ELSE IF ~ex.val THEN WithReads(Ok(0), ex.reads)
       ELSE LET key == rel_size_to_key(tag)
                buf == TlGet(tl, key, lsn)
            IN IF ~buf.ok THEN WithReads(buf, ex.reads \cup {key})
               ELSE WithReads(Ok(get_u32_le(buf.val)), ex.reads \cup {key})

\* get_rel_page_at_lsn that takes block number nblocks to be within the relation
get_rel_page_at_lsn_gt(tl, tag, blknum, lsn) ==
    LET nblocks == get_rel_size(tl, tag, lsn) IN
    IF ~nblocks.ok THEN nblocks
    ELSE IF blknum > nblocks.val THEN WithReads(Ok(ZERO_PAGE), nblocks.reads)
    ELSE LET key == rel_block_to_key(tag, blknum) IN
         WithReads(TlGet(tl, key, lsn), nblocks.reads \cup {key})

\* Look up given page version.
get_rel_page_at_lsn(tl, tag, blknum, lsn) ==
    LET nblocks == get_rel_size(tl, tag, lsn) IN
    IF ~nblocks.ok THEN nblocks
    ELSE IF blknum >= nblocks.val THEN WithReads(Ok(ZERO_PAGE), nblocks.reads)
    ELSE LET key == rel_block_to_key(tag, blknum) IN
         WithReads(TlGet(tl, key, lsn), nblocks.reads \cup {key})

\* Get a list of all existing relations in given tablespace and database.
list_rels(tl, spcnode, dbnode, lsn) ==
    LET key == rel_dir_to_key(spcnode, dbnode)
        buf == TlGet(tl, key, lsn)
    IN IF ~buf.ok THEN WithReads(buf, {key})
       ELSE LET dir == RelDirectory_des(buf.val) IN
            IF ~dir.ok THEN WithReads(dir, {key})
            ELSE WithReads(Ok({ RelTag(spcnode, dbnode, e[1], e[2]) : e \in dir.val }), {key})

list_relmap_files(tl, lsn) ==
    LET buf == TlGet(tl, DBDIR_KEY, lsn) IN
    IF ~buf.ok THEN WithReads(buf, {DBDIR_KEY})
    ELSE WithReads(DbDirectory_des(buf.val), {DBDIR_KEY})

---------------------------------------------------------------------------
(* DatadirTimelineWriter: [lsn, pending_updates, pending_deletions].      *)
(* pending_updates is a function from the buffered keys to their Value.   *)
(* put_last and put_overwritten are not fields of the Rust struct: they   *)
(* record the value of the last call of put() for each key since          *)
(* begin_record, and the keys for which a call of put() came with a value *)
(* other than that of the call before.                                    *)

begin_record(lsn) ==
    [lsn |-> lsn, pending_updates |-> <<>>, pending_deletions |-> <<>>,
     put_last |-> <<>>, put_overwritten |-> {}]

\* a put that keeps the value already held for the key
put_keep_first(w, key, val) ==
    [w EXCEPT !.pending_updates =
                 [k \in (DOMAIN @) \cup {key} |->
                     IF k \in DOMAIN @ THEN @[k] ELSE val],
              !.put_last =
                 [k \in (DOMAIN @) \cup {key} |-> IF k = key THEN val ELSE @[k]],
              !.put_overwritten =
                 IF key \in DOMAIN w.put_last /\ w.put_last[key] # val
                 THEN @ \cup {key} ELSE @]

\* a put that leaves out a key lying in a range whose delete is pending
put_unless_deleted(w, key, val) ==
    IF \E i \in DOMAIN w.pending_deletions : RangeContains(w.pending_deletions[i], key)
    THEN w
    ELSE [w EXCEPT !.pending_updates =
                      [k \in (DOMAIN @) \cup {key} |-> IF k = key THEN val ELSE @[k]],
                   !.put_last =
                      [k \in (DOMAIN @) \cup {key} |-> IF k = key THEN val ELSE @[k]]]

\* HashMap::insert: the new value replaces a value already held for the key
put(w, key, val) ==
    [w EXCEPT !.pending_updates =
                 [k \in (DOMAIN @) \cup {key} |-> IF k = key THEN val ELSE @[k]],
              !.put_last =
                 [k \in (DOMAIN @) \cup {key} |-> IF k = key THEN val ELSE @[k]],
              !.put_overwritten =
                 IF key \in DOMAIN w.put_last /\ w.put_last[key] # val
                 THEN @ \cup {key} ELSE @]

delete(w, key_range) ==
    [w EXCEPT !.pending_deletions = Append(@, key_range)]

\* a get that reads the timeline at the buffer's lsn
get_at_buffer_lsn(tl, w, key) ==
    IF key \in DOMAIN w.pending_updates
    THEN IF w.pending_updates[key].t = "Image"
         THEN Ok(w.pending_updates[key].img)
         ELSE Err("unexpected pending WAL record")
    ELSE TlGet(tl, key, w.lsn)

\* the writer's internal get(): pending_deletions is not consulted
get(tl, w, key) ==
    IF key \in DOMAIN w.pending_updates
    THEN IF w.pending_updates[key].t = "Image"
         THEN Ok(w.pending_updates[key].img)
         ELSE Err("unexpected pending WAL record")
    ELSE TlGet(tl, key, tl.last_record_lsn)

\* results of the writer's operations: the writer after the call, or the
\* error with the writer as it is when the error is returned
WOk(w) == [ok |-> TRUE, w |-> w]
WErr(w, e) == [ok |-> FALSE, w |-> w, err |-> e]

init_empty(w) ==
    LET w1 == put(w, DBDIR_KEY, Image(DbDirectory_ser({})))
        w2 == put(w1, TWOPHASEDIR_KEY, Image(TwoPhaseDirectory_ser({})))
        buf == SlruSegmentDirectory_ser({})
        w3 == put(w2, slru_dir_to_key("Clog"), Image(buf))
        w4 == put(w3, slru_dir_to_key("MultiXactMembers"), Image(buf))
        w5 == put(w4, slru_dir_to_key("MultiXactOffsets"), Image(buf))
    IN WOk(w5)

put_rel_wal_record(w, rel, blknum, rec) ==
    WOk(put(w, rel_block_to_key(rel, blknum), WalRecord(rec)))

put_rel_page_image(w, rel, blknum, img) ==
    WOk(put(w, rel_block_to_key(rel, blknum), Image(img)))

put_relmap_file(tl, w, spcnode, dbnode, img) ==
    LET buf == get(tl, w, DBDIR_KEY) IN
    IF ~buf.ok THEN WErr(w, buf.val)
    ELSE LET dir == DbDirectory_des(buf.val) IN
         IF ~dir.ok THEN WErr(w, dir.val)
         ELSE LET w1 == IF <<spcnode, dbnode>> \notin dir.val
                        THEN put(w, DBDIR_KEY,
                                 Image(DbDirectory_ser(dir.val \cup {<<spcnode, dbnode>>})))
                        ELSE w
              IN WOk(put(w1, relmap_file_key(spcnode, dbnode), Image(img)))

put_dbdir_creation(w, spcnode, dbnode) ==
    WOk(put(w, rel_dir_to_key(spcnode, dbnode), Image(RelDirectory_ser({}))))

drop_dbdir(tl, w, spcnode, dbnode) ==
    LET buf == get(tl, w, DBDIR_KEY) IN
    IF ~buf.ok THEN WErr(w, buf.val)
    ELSE LET dir == DbDirectory_des(buf.val) IN
         IF ~dir.ok THEN WErr(w, dir.val)
         ELSE LET w1 == IF <<spcnode, dbnode>> \in dir.val
                        THEN put(w, DBDIR_KEY,
                                 Image(DbDirectory_ser(dir.val \ {<<spcnode, dbnode>>})))
                        ELSE w
              IN WOk(delete(w1, dbdir_key_range(spcnode, dbnode)))

\* put_rel_creation that stores the size but not the updated directory
put_rel_creation_nodir(tl, w, rel, nblocks) ==
    LET dir_key == rel_dir_to_key(rel.spcnode, rel.dbnode)
        buf == get(tl, w, dir_key)
    IN IF ~buf.ok THEN WErr(w, buf.val)
       ELSE LET dir == RelDirectory_des(buf.val) IN
            IF ~dir.ok THEN WErr(w, dir.val)
            ELSE IF <<rel.relnode, rel.forknum>> \in dir.val THEN WErr(w, "already exists")
            ELSE WOk(put(w, rel_size_to_key(rel), Image(to_le_bytes(nblocks))))

\* put_rel_creation that reads the directory from the timeline, not from
\* the images the buffer holds
put_rel_creation_unbuffered(tl, w, rel, nblocks) ==
    LET dir_key == rel_dir_to_key(rel.spcnode, rel.dbnode)
        buf == TlGet(tl, dir_key, tl.last_record_lsn)
    IN IF ~buf.ok THEN WErr(w, buf.val)
       ELSE LET dir == RelDirectory_des(buf.val) IN
            IF ~dir.ok THEN WErr(w, dir.val)
            ELSE IF <<rel.relnode, rel.forknum>> \in dir.val THEN WErr(w, "already exists")
            ELSE LET w1 == put(w, dir_key,
                               Image(RelDirectory_ser(dir.val \cup {<<rel.relnode, rel.forknum>>})))
                 IN WOk(put(w1, rel_size_to_key(rel), Image(to_le_bytes(nblocks))))

put_rel_creation(tl, w, rel, nblocks) ==
    LET dir_key == rel_dir_to_key(rel.spcnode, rel.dbnode)
        buf == get(tl, w, dir_key)
    IN IF ~buf.ok THEN WErr(w, buf.val)
       ELSE LET dir == RelDirectory_des(buf.val) IN
            IF ~dir.ok THEN WErr(w, dir.val)
            ELSE IF <<rel.relnode, rel.forknum>> \in dir.val THEN WErr(w, "already exists")
            ELSE LET w1 == put(w, dir_key,
                               Image(RelDirectory_ser(dir.val \cup {<<rel.relnode, rel.forknum>>})))
                 IN WOk(put(w1, rel_size_to_key(rel), Image(to_le_bytes(nblocks))))

\* put_rel_truncation that stores nblocks most significant byte first
put_rel_truncation_be(w, rel, nblocks) ==
    WOk(put(w, rel_size_to_key(rel),
            Image(<< (nblocks \div 16777216) % 256, (nblocks \div 65536) % 256,
                     (nblocks \div 256) % 256, nblocks % 256 >>)))

put_rel_truncation(w, rel, nblocks) ==
    WOk(put(w, rel_size_to_key(rel), Image(to_le_bytes(nblocks))))

\* put_rel_extend that takes nblocks for the last block number
put_rel_extend_plus1(w, rel, nblocks) ==
    WOk(put(w, rel_size_to_key(rel), Image(to_le_bytes(nblocks + 1))))

put_rel_extend(w, rel, nblocks) ==
    WOk(put(w, rel_size_to_key(rel), Image(to_le_bytes(nblocks))))

\* put_rel_drop that deletes the keys but leaves the directory as it is
put_rel_drop_keepdir(tl, w, rel) ==
    LET dir_key == rel_dir_to_key(rel.spcnode, rel.dbnode)
        buf == get(tl, w, dir_key)
    IN IF ~buf.ok THEN WErr(w, buf.val)
       ELSE LET dir == RelDirectory_des(buf.val) IN
            IF ~dir.ok THEN WErr(w, dir.val)
            ELSE WOk(delete(w, rel_key_range(rel)))

put_rel_drop(tl, w, rel) ==
    LET dir_key == rel_dir_to_key(rel.spcnode, rel.dbnode)
        buf == get(tl, w, dir_key)
    IN IF ~buf.ok THEN WErr(w, buf.val)
       ELSE LET dir == RelDirectory_des(buf.val) IN
            IF ~dir.ok THEN WErr(w, dir.val)
            ELSE LET w1 == IF <<rel.relnode, rel.forknum>> \in dir.val
                           THEN put(w, dir_key,
                                    Image(RelDirectory_ser(dir.val \ {<<rel.relnode, rel.forknum>>})))
                           ELSE w
                 IN WOk(delete(w1, rel_key_range(rel)))

\* put_twophase_file that replaces the file of an xid that is a member
put_twophase_file_overwrite(tl, w, xid, img) ==
    LET buf == get(tl, w, TWOPHASEDIR_KEY) IN
    IF ~buf.ok THEN WErr(w, buf.val)
    ELSE LET dir == TwoPhaseDirectory_des(buf.val) IN
         IF ~dir.ok THEN WErr(w, dir.val)
         ELSE LET w1 == put(w, TWOPHASEDIR_KEY,
                            Image(TwoPhaseDirectory_ser(dir.val \cup {xid})))
              IN WOk(put(w1, twophase_file_key(xid), Image(img)))

put_twophase_file(tl, w, xid, img) ==
    LET buf == get(tl, w, TWOPHASEDIR_KEY) IN
    IF ~buf.ok THEN WErr(w, buf.val)
    ELSE LET dir == TwoPhaseDirectory_des(buf.val) IN
         IF ~dir.ok THEN WErr(w, dir.val)
         ELSE IF xid \in dir.val THEN WErr(w, "already exists")
         ELSE LET w1 == put(w, TWOPHASEDIR_KEY,
                            Image(TwoPhaseDirectory_ser(dir.val \cup {xid})))
              IN WOk(put(w1, twophase_file_key(xid), Image(img)))

put_slru_segment_creation(tl, w, kind, segno, nblocks) ==
    LET dir_key == slru_dir_to_key(kind)
        buf == get(tl, w, dir_key)
    IN IF ~buf.ok THEN WErr(w, buf.val)
       ELSE LET dir == SlruSegmentDirectory_des(buf.val) IN
            IF ~dir.ok THEN WErr(w, dir.val)
            ELSE IF segno \in dir.val THEN WErr(w, "already exists")
            ELSE LET w1 == put(w, dir_key,
                               Image(SlruSegmentDirectory_ser(dir.val \cup {segno})))
                 IN WOk(put(w1, slru_segment_size_to_key(kind, segno),
                            Image(to_le_bytes(nblocks))))

\* drop_slru_segment that refuses a segment that is not a member
drop_slru_segment_checked(tl, w, kind, segno) ==
    LET dir_key == slru_dir_to_key(kind)
        buf == get(tl, w, dir_key)
    IN IF ~buf.ok THEN WErr(w, buf.val)
       ELSE LET dir == SlruSegmentDirectory_des(buf.val) IN
            IF ~dir.ok THEN WErr(w, dir.val)
            ELSE IF segno \notin dir.val THEN WErr(w, "does not exist")
            ELSE LET w1 == put(w, dir_key,
                               Image(SlruSegmentDirectory_ser(dir.val \ {segno})))
                 IN WOk(delete(w1, slru_segment_key_range(kind, segno)))

\* the directory is put back whether or not segno was a member
drop_slru_segment(tl, w, kind, segno) ==
    LET dir_key == slru_dir_to_key(kind)
        buf == get(tl, w, dir_key)
    IN IF ~buf.ok THEN WErr(w, buf.val)
       ELSE LET dir == SlruSegmentDirectory_des(buf.val) IN
            IF ~dir.ok THEN WErr(w, dir.val)
            ELSE LET w1 == put(w, dir_key,
                               Image(SlruSegmentDirectory_ser(dir.val \ {segno})))
                 IN WOk(delete(w1, slru_segment_key_range(kind, segno)))

drop_twophase_file(tl, w, xid) ==
    LET buf == get(tl, w, TWOPHASEDIR_KEY) IN
    IF ~buf.ok THEN WErr(w, buf.val)
    ELSE LET dir == TwoPhaseDirectory_des(buf.val) IN
         IF ~dir.ok THEN WErr(w, dir.val)
         ELSE LET w1 == put(w, TWOPHASEDIR_KEY,
                            Image(TwoPhaseDirectory_ser(dir.val \ {xid})))
              IN WOk(delete(w1, twophase_key_range(xid)))

\* finish(): the timeline calls it issues, one per step

\* a put at the record LSN that follows the timeline's last-record LSN
finish_put_next_lsn(tl, w, key) ==
    TlPut(tl, key, tl.last_record_lsn + 8, w.pending_updates[key])

finish_put(tl, w, key) == TlPut(tl, key, w.lsn, w.pending_updates[key])

\* a finish() that does not hand the range deletes to the timeline
finish_delete_skipped(tl, w, i) == Ok(tl)

finish_delete(tl, w, i) == TlDelete(tl, w.pending_deletions[i], w.lsn)

\* a finish() that leaves the last-record LSN where it is
finish_advance_skipped(tl, w) == Ok(tl)

finish_advance(tl, w) == TlAdvance(tl, w.lsn)

\* `for (key, value) in self.pending_updates { writer.put(..)? }`
RECURSIVE PutAll(_, _, _)
PutAll(tl, w, keys) ==
    IF keys = {} THEN Ok(tl)
    ELSE LET k == CHOOSE x \in keys : TRUE
             r == finish_put(tl, w, k)
         IN IF r.ok THEN PutAll(r.val, w, keys \ {k}) ELSE r

\* `for key_range in self.pending_deletions { writer.delete(..)? }`
RECURSIVE DeleteAll(_, _, _)
DeleteAll(tl, w, i) ==
    IF i > Len(w.pending_deletions) THEN Ok(tl)
    ELSE LET r == finish_delete(tl, w, i)
         IN IF r.ok THEN DeleteAll(r.val, w, i + 1) ELSE r

\* finish() run from its first statement to its return
finish(tl, w) ==
    LET p == PutAll(tl, w, DOMAIN w.pending_updates) IN
    IF ~p.ok THEN p
    ELSE LET d == DeleteAll(p.val, w, 1) IN
         IF ~d.ok THEN d ELSE finish_advance(d.val, w)

\* create_test_timeline: an empty timeline on which init_empty and
\* put_dbdir_creation(0, TESTDB) are committed at Lsn(8)
create_test_timeline ==
    LET w0 == begin_record(INIT_LSN)
        w1 == init_empty(w0).w
        w2 == put_dbdir_creation(w1, 0, TESTDB).w
    IN finish(EmptyTimeline, w2).val

---------------------------------------------------------------------------
(* Image layer files (image_layer.rs).                                     *)
(*                                                                         *)
(* The disk: dir maps the paths that exist to their inode, files maps an   *)
(* inode to its content, ncreate counts the files created.  The bookfile   *)
(* container, the VirtualFile and the blob helpers of utils are not part   *)
(* of these sources; they are modelled from the specification: a file is   *)
(* [gen, chapters, trailer], where chapters maps the ids of the chapters   *)
(* written so far to their bytes, trailer tells whether the book was       *)
(* closed (a file without trailer cannot be opened as a book), and gen is  *)
(* the number of the create() that produced the content.                   *)

INDEX_CHAPTER == 1
VALUES_CHAPTER == 2
SUMMARY_CHAPTER == 3

\* f with x mapped to v
Upd(f, x, v) == [y \in (DOMAIN f) \cup {x} |-> IF y = x THEN v ELSE f[y]]
\* f without x
Without(f, x) == [y \in (DOMAIN f) \ {x} |-> f[y]]

EmptyDisk == [dir |-> <<>>, files |-> <<>>, ncreate |-> 0]

EmptyFile(gen) == [gen |-> gen, chapters |-> <<>>, trailer |-> FALSE]

\* VirtualFile::create: creates the file, or truncates the file that exists
create(d, path) ==
    LET gen == d.ncreate + 1
        ino == IF path \in DOMAIN d.dir THEN d.dir[path] ELSE gen
    IN [dir |-> Upd(d.dir, path, ino),
        files |-> Upd(d.files, ino, EmptyFile(gen)),
        ncreate |-> gen]

\* fs::remove_file: unlinks the path; the inode stays for those who have it open
remove_file(d, path) ==
    IF path \in DOMAIN d.dir THEN Ok([d EXCEPT !.dir = Without(@, path)])
    ELSE Err("NotFound")

\* BookWriter::new_chapter
new_chapter(d, ino, id) ==
    [d EXCEPT !.files[ino].chapters = Upd(@, id, <<>>)]

\* Write::write_all on the open chapter
write_all(d, ino, id, bytes) ==
    [d EXCEPT !.files[ino].chapters[id] = @ \o bytes]

\* BookWriter::close: writes the trailer
close_book(d, ino) == [d EXCEPT !.files[ino].trailer = TRUE]

\* an open Book: the inode and the content it was opened on
NoBook == [open |-> FALSE, ino |-> 0, gen |-> 0]

\* VirtualFile::open followed by Book::new
open_book(d, path) ==
    IF path \notin DOMAIN d.dir THEN Err("Failed to open file")
    ELSE LET ino == d.dir[path] IN
         IF ~d.files[ino].trailer THEN Err("Failed to open file as a bookfile")
         ELSE Ok([open |-> TRUE, ino |-> ino, gen |-> d.files[ino].gen])

\* Book::read_chapter
read_chapter(d, book, id) ==
    LET file == d.files[book.ino] IN
    IF file.gen # book.gen \/ ~file.trailer \/ id \notin DOMAIN file.chapters
    THEN Err("chapter not found")
    ELSE Ok(file.chapters[id])

\* utils::write_blob: the length prefix, then the bytes
write_blob(img) == to_le_bytes(Len(img)) \o img

\* utils::read_blob_from_chapter: the blob whose length prefix starts at offset
read_blob_from_chapter(chapter, offset) ==
    LET plen == Len(to_le_bytes(0)) IN
    IF offset + plen > Len(chapter) THEN Err("UnexpectedEof")
    ELSE LET n == get_u32_le(SubSeq(chapter, offset + 1, offset + plen)) IN
         IF offset + plen + n > Len(chapter) THEN Err("UnexpectedEof")
         ELSE Ok(SubSeq(chapter, offset + plen + 1, offset + plen + n))

\* the identity of a layer
LayerId(tenantid, timelineid, key_range, lsn) ==
    [tenantid |-> tenantid, timelineid |-> timelineid, key_range |-> key_range, lsn |-> lsn]

\* struct Summary and From<&ImageLayer> for Summary
Summary(layer) == LayerId(layer.tenantid, layer.timelineid, layer.key_range, layer.lsn)

Summary_ser(s) ==
    <<s.tenantid, s.timelineid>> \o s.key_range.start \o s.key_range.end \o <<s.lsn>>

Summary_des(buf) ==
    IF Len(buf) # Len(Summary_ser(LayerId(0, 0, KeyRange(DBDIR_KEY, DBDIR_KEY), 0)))
    THEN Err("DeserializeError")
    ELSE Ok(LayerId(buf[1], buf[2],
                    KeyRange(SubSeq(buf, 3, 8), SubSeq(buf, 9, 14)), buf[15]))

\* HashMap<Key, u64>::ser / des: the entries as (key fields, offset)
Index_ser(index) == ser({ k \o <<index[k]>> : k \in DOMAIN index })

Index_des(buf) ==
    LET d == des(buf, 7) IN
    IF ~d.ok THEN d
    ELSE Ok([k \in { SubSeq(e, 1, 6) : e \in d.val } |->
                (CHOOSE e \in d.val : SubSeq(e, 1, 6) = k)[7]])

\* ImageFileName and its Display: <key start>-<key end>__<LSN>
ImageFileName(key_range, lsn) == [key_range |-> key_range, lsn |-> lsn]
fname_to_string(fname) == fname.key_range.start \o fname.key_range.end \o <<fname.lsn>>

\* a path: the directory and the file name
Path(dir, file_name) == [dir |-> dir, file_name |-> file_name]

\* conf.timeline_path(&timelineid, &tenantid)
timeline_path(timelineid, tenantid) == <<tenantid, timelineid>>

\* ImageLayer::path_for with PathOrConf::Conf
path_for(timelineid, tenantid, fname) ==
    Path(timeline_path(timelineid, tenantid), fname_to_string(fname))

(* ImageLayer, the in-memory handle of a file; the fields of                *)
(* ImageLayerInner (loaded, book, index) are kept in the same record.       *)
(* warned is not a field of the Rust struct: it records that load() printed *)
(* the warning about the file name.                                         *)

NoPath == Path(<<>>, <<>>)

\* the handle as ImageLayer::new, new_for_path and finish() build it
Unloaded(conf, p, id) ==
    [alive |-> TRUE, conf |-> conf, path |-> p,
     tenantid |-> id.tenantid, timelineid |-> id.timelineid,
     key_range |-> id.key_range, lsn |-> id.lsn,
     loaded |-> FALSE, book |-> NoBook, index |-> <<>>, warned |-> FALSE]

NoLayer ==
    [Unloaded(TRUE, NoPath, LayerId(0, 0, KeyRange(DBDIR_KEY, DBDIR_KEY), 0))
        EXCEPT !.alive = FALSE]

layer_name(layer) == ImageFileName(layer.key_range, layer.lsn)

filename(layer) == fname_to_string(layer_name(layer))

\* Path to the layer file
path(layer) ==
    IF layer.conf
    THEN path_for(layer.timelineid, layer.tenantid, layer_name(layer))
    ELSE layer.path

\* Create an ImageLayer struct representing an existing file on disk
ImageLayer_new(timelineid, tenantid, fname) ==
    Unloaded(TRUE, NoPath, LayerId(tenantid, timelineid, fname.key_range, fname.lsn))

\* the debugging variant: the fields come from the summary of the book the
\* caller has opened on p
new_for_path(d, p, book) ==
    LET chapter == read_chapter(d, book, SUMMARY_CHAPTER) IN
    IF ~chapter.ok THEN chapter
    ELSE LET summary == Summary_des(chapter.val) IN
         IF ~summary.ok THEN summary
         ELSE Ok(Unloaded(FALSE, p, summary.val))

\* results of the handle's operations: the handle after the call
LOk(layer) == [ok |-> TRUE, layer |-> layer, err |-> ""]
LErr(layer, e) == [ok |-> FALSE, layer |-> layer, err |-> e]

\* the check load() makes after opening the book: an error, or whether the
\* warning was printed
load_check(d, layer) ==
    IF layer.conf
    THEN LET chapter == read_chapter(d, layer.book, SUMMARY_CHAPTER) IN
         IF ~chapter.ok THEN chapter
         ELSE LET actual_summary == Summary_des(chapter.val) IN
              IF ~actual_summary.ok THEN actual_summary
              ELSE IF actual_summary.val # Summary(layer)
              THEN Err("in-file summary does not match expected summary")
              ELSE Ok(FALSE)
    ELSE Ok(path(layer).file_name # filename(layer))

\* a load that trusts the file: the summary is not compared
load_unchecked(d, layer) ==
    IF layer.loaded THEN LOk(layer)
    ELSE LET opened == IF layer.book.open THEN Ok(layer.book)
                       ELSE open_book(d, path(layer))
         IN IF ~opened.ok THEN LErr(layer, opened.val)
            ELSE LET l1 == [layer EXCEPT !.book = opened.val]
                     chapter == read_chapter(d, l1.book, INDEX_CHAPTER)
                 IN IF ~chapter.ok THEN LErr(l1, chapter.val)
                    ELSE LET index == Index_des(chapter.val) IN
                         IF ~index.ok THEN LErr(l1, index.val)
                         ELSE LOk([l1 EXCEPT !.index = index.val, !.loaded = TRUE])

\* Load the contents of the file into memory
load(d, layer) ==
    IF layer.loaded THEN LOk(layer)
    ELSE LET opened == IF layer.book.open THEN Ok(layer.book)
                       ELSE open_book(d, path(layer))
         IN IF ~opened.ok THEN LErr(layer, opened.val)
            ELSE LET l1 == [layer EXCEPT !.book = opened.val]
                     chk == load_check(d, l1)
                 IN IF ~chk.ok THEN LErr(l1, chk.val)
                    ELSE LET chapter == read_chapter(d, l1.book, INDEX_CHAPTER) IN
                         IF ~chapter.ok THEN LErr(l1, chapter.val)
                         ELSE LET index == Index_des(chapter.val) IN
                              IF ~index.ok THEN LErr(l1, index.val)
                              ELSE LOk([l1 EXCEPT !.index = index.val,
                                                  !.loaded = TRUE,
                                                  !.warned = chk.val])

\* ValueReconstructState: key, lsn and img, an Option<(Lsn, Bytes)>
NoImg == [some |-> FALSE, lsn |-> 0, val |-> <<>>]
SomeImg(lsn, val) == [some |-> TRUE, lsn |-> lsn, val |-> val]
ValueReconstructState(key, lsn, img) == [key |-> key, lsn |-> lsn, img |-> img]

\* results of get_value_reconstruct_data: Complete or Missing, with the state
\* and the handle after the call
VOk(res, state, layer) ==
    [ok |-> TRUE, res |-> res, state |-> state, layer |-> layer]
VErr(state, layer) ==
    [ok |-> FALSE, res |-> "Err", state |-> state, layer |-> layer]

\* get_value_reconstruct_data that loads before it looks at the cached image
get_value_reconstruct_data_load_first(d, layer, lsn_floor, state) ==
    LET inner == load(d, layer) IN
    IF ~inner.ok THEN VErr(state, inner.layer)
    ELSE IF state.img.some /\ layer.lsn <= state.img.lsn
    THEN VOk("Complete", [state EXCEPT !.lsn = state.img.lsn], inner.layer)
    ELSE IF state.key \in DOMAIN inner.layer.index
    THEN LET chapter == read_chapter(d, inner.layer.book, VALUES_CHAPTER)
             blob == read_blob_from_chapter(chapter.val, inner.layer.index[state.key])
         IN IF ~chapter.ok \/ ~blob.ok THEN VErr(state, inner.layer)
            ELSE VOk("Complete",
                     [state EXCEPT !.img = SomeImg(layer.lsn, blob.val),
                                   !.lsn = layer.lsn],
                     inner.layer)
    ELSE VOk("Missing", [state EXCEPT !.lsn = layer.lsn], inner.layer)

\* get_value_reconstruct_data that leaves state.lsn alone when the key is
\* missing
get_value_reconstruct_data_keep_lsn(d, layer, lsn_floor, state) ==
    IF state.img.some /\ layer.lsn <= state.img.lsn
    THEN VOk("Complete", [state EXCEPT !.lsn = state.img.lsn], layer)
    ELSE LET inner == load(d, layer) IN
         IF ~inner.ok THEN VErr(state, inner.layer)
         ELSE IF state.key \in DOMAIN inner.layer.index
         THEN LET chapter == read_chapter(d, inner.layer.book, VALUES_CHAPTER)
                  blob == read_blob_from_chapter(chapter.val, inner.layer.index[state.key])
              IN IF ~chapter.ok \/ ~blob.ok THEN VErr(state, inner.layer)
                 ELSE VOk("Complete",
                          [state EXCEPT !.img = SomeImg(layer.lsn, blob.val),
                                        !.lsn = layer.lsn],
                          inner.layer)
         ELSE VOk("Missing", state, inner.layer)

\* Look up given page in the file
get_value_reconstruct_data(d, layer, lsn_floor, state) ==
    IF state.img.some /\ layer.lsn <= state.img.lsn
    THEN VOk("Complete", [state EXCEPT !.lsn = state.img.lsn], layer)
    ELSE LET inner == load(d, layer) IN
         IF ~inner.ok THEN VErr(state, inner.layer)
         ELSE IF state.key \in DOMAIN inner.layer.index
         THEN LET offset == inner.layer.index[state.key]
                  chapter == read_chapter(d, inner.layer.book, VALUES_CHAPTER)
              IN IF ~chapter.ok THEN VErr(state, inner.layer)
                 ELSE LET blob == read_blob_from_chapter(chapter.val, offset) IN
                      IF ~blob.ok THEN VErr(state, inner.layer)
                      ELSE VOk("Complete",
                               [state EXCEPT !.img = SomeImg(layer.lsn, blob.val),
                                             !.lsn = layer.lsn],
                               inner.layer)
         ELSE VOk("Missing", [state EXCEPT !.lsn = layer.lsn], inner.layer)

\* results of collect_keys: the set keys after the call
collect_keys(d, layer, key_range, keys) ==
    LET inner == load(d, layer) IN
    IF ~inner.ok THEN [ok |-> FALSE, keys |-> keys, layer |-> inner.layer]
    ELSE [ok |-> TRUE,
          keys |-> keys \cup { x \in DOMAIN inner.layer.index : RangeContains(key_range, x) },
          layer |-> inner.layer]

\* unload that drops the index and leaves the handle marked as loaded
unload_keeps_loaded(layer) == [layer EXCEPT !.index = <<>>]

unload(layer) == [layer EXCEPT !.index = <<>>, !.loaded = FALSE]

\* what a read of the handle returned: get_value_reconstruct_data its result
\* and the state, collect_keys its result and the set
ReadOut(ok, res, state, keys) == [ok |-> ok, res |-> res, state |-> state, keys |-> keys]
NoOut == ReadOut(TRUE, "", ValueReconstructState(DBDIR_KEY, 0, NoImg), {})
NoRead == [op |-> "none", before |-> NoLayer, arg |-> NoOut.state, out |-> NoOut,
           after |-> NoLayer]
NoTwin == [layer |-> NoLayer, out |-> NoOut]

\* ImageLayer::delete: delete underlying file
ImageLayer_delete(d, layer) == remove_file(d, path(layer))

(* ImageLayerWriter.  values_writer is TRUE while the Option holds the      *)
(* chapter writer; ino is the file the writer has open.  puts and clean are *)
(* not fields of the Rust struct: puts records the bytes of the put_image   *)
(* calls that returned Ok, clean that no put_image call returned an error.  *)

NoImageLayerWriter ==
    [alive |-> FALSE, path |-> NoPath, timelineid |-> 0, tenantid |-> 0,
     key_range |-> KeyRange(DBDIR_KEY, DBDIR_KEY), lsn |-> 0, ino |-> 0,
     values_writer |-> FALSE, end_offset |-> 0, index |-> <<>>, finished |-> FALSE,
     puts |-> <<>>, clean |-> TRUE]

\* results of the writer's operations: kind is "ok", "err" or "panic"; the
\* writer and the disk after the call; the handle finish() returns
IwRes(kind, d, w, layer) == [kind |-> kind, d |-> d, w |-> w, layer |-> layer]

\* the points at which the calls of ImageLayerWriter can get an I/O error
NewFails == {"none", "create", "magic"}
PutFails == {"none", "write"}
FinishFails == {"none", "close_values", "index", "summary", "close"}

ImageLayerWriter_new(d, timelineid, tenantid, key_range, lsn, fail) ==
    LET p == path_for(timelineid, tenantid, ImageFileName(key_range, lsn)) IN
    IF fail = "create" THEN IwRes("err", d, NoImageLayerWriter, NoLayer)
    ELSE LET d1 == create(d, p)
             ino == d1.dir[p]
         IN IF fail = "magic" THEN IwRes("err", d1, NoImageLayerWriter, NoLayer)
            ELSE IwRes("ok", new_chapter(d1, ino, VALUES_CHAPTER),
                       [alive |-> TRUE, path |-> p, timelineid |-> timelineid,
                        tenantid |-> tenantid, key_range |-> key_range, lsn |-> lsn,
                        ino |-> ino, values_writer |-> TRUE, end_offset |-> 0,
                        index |-> <<>>, finished |-> FALSE,
                        puts |-> <<>>, clean |-> TRUE],
                       NoLayer)

\* put_image that records the offset at which the blob ends
put_image_end_offset(d, w, key, img, fail) ==
    IF ~RangeContains(w.key_range, key) THEN IwRes("panic", d, w, NoLayer)
    ELSE IF ~w.values_writer THEN IwRes("panic", d, w, NoLayer)
    ELSE IF fail = "write"
    THEN IwRes("err", write_all(d, w.ino, VALUES_CHAPTER, to_le_bytes(Len(img))),
               [w EXCEPT !.clean = FALSE], NoLayer)
    ELSE LET len == Len(write_blob(img))
             d1 == write_all(d, w.ino, VALUES_CHAPTER, write_blob(img))
             w1 == [w EXCEPT !.end_offset = @ + len,
                             !.index = Upd(@, key, w.end_offset + len),
                             !.puts = Upd(@, key, img)]
         IN IF key \in DOMAIN w.index THEN IwRes("panic", d1, w1, NoLayer)
            ELSE IwRes("ok", d1, w1, NoLayer)

\* put_image without its two assertions
put_image_unasserted(d, w, key, img, fail) ==
    IF ~w.values_writer THEN IwRes("panic", d, w, NoLayer)
    ELSE IF fail = "write"
    THEN IwRes("err", write_all(d, w.ino, VALUES_CHAPTER, to_le_bytes(Len(img))),
               [w EXCEPT !.clean = FALSE], NoLayer)
    ELSE IwRes("ok", write_all(d, w.ino, VALUES_CHAPTER, write_blob(img)),
               [w EXCEPT !.end_offset = @ + Len(write_blob(img)),
                         !.index = Upd(@, key, w.end_offset),
                         !.puts = Upd(@, key, img)],
               NoLayer)

\* Write next value to the file.  A failed write leaves the length prefix
\* of the blob in the file.
put_image(d, w, key, img, fail) ==
    IF ~RangeContains(w.key_range, key) THEN IwRes("panic", d, w, NoLayer)
    ELSE IF ~w.values_writer THEN IwRes("panic", d, w, NoLayer)
    ELSE IF fail = "write"
    THEN IwRes("err", write_all(d, w.ino, VALUES_CHAPTER, to_le_bytes(Len(img))),
               [w EXCEPT !.clean = FALSE], NoLayer)
    ELSE LET off == w.end_offset
             len == Len(write_blob(img))
             d1 == write_all(d, w.ino, VALUES_CHAPTER, write_blob(img))
             w1 == [w EXCEPT !.end_offset = @ + len,
                             !.index = Upd(@, key, off),
                             !.puts = Upd(@, key, img)]
         IN IF key \in DOMAIN w.index THEN IwRes("panic", d1, w1, NoLayer)
            ELSE IwRes("ok", d1, w1, NoLayer)

ImageLayerWriter_finish(d, w, fail) ==
    IF ~w.values_writer THEN IwRes("panic", d, w, NoLayer)
    ELSE LET w0 == [w EXCEPT !.values_writer = FALSE] IN
         IF fail = "close_values" THEN IwRes("err", d, w0, NoLayer)
         ELSE LET d1 == new_chapter(d, w.ino, INDEX_CHAPTER) IN
              IF fail = "index" THEN IwRes("err", d1, w0, NoLayer)
              ELSE LET d2 == write_all(d1, w.ino, INDEX_CHAPTER, Index_ser(w.index))
                       d3 == new_chapter(d2, w.ino, SUMMARY_CHAPTER)
                   IN IF fail = "summary" THEN IwRes("err", d3, w0, NoLayer)
                      ELSE LET summary == LayerId(w.tenantid, w.timelineid, w.key_range, w.lsn)
                               d4 == write_all(d3, w.ino, SUMMARY_CHAPTER, Summary_ser(summary))
                           IN IF fail = "close" THEN IwRes("err", d4, w0, NoLayer)
                              ELSE IwRes("ok", close_book(d4, w.ino),
                                         [w0 EXCEPT !.finished = TRUE],
                                         Unloaded(TRUE, NoPath, summary))

\* impl Drop for ImageLayerWriter: the disk afterwards
ImageLayerWriter_drop(d, w) ==
    LET d1 == IF w.values_writer THEN close_book(d, w.ino) ELSE d
        r == remove_file(d1, w.path)
    IN IF ~w.finished /\ r.ok THEN r.val ELSE d1

---------------------------------------------------------------------------
(* Inputs *)

\* the LSNs begin_record is called with: the two record LSNs after INIT_LSN
LSNs == {INIT_LSN + 8, INIT_LSN + 16}

TESTREL_A == RelTag(0, TESTDB, 1000, 0)
TESTREL_FSM == RelTag(0, TESTDB, 1000, FSM_FORKNUM)

\* the relations the writer operations are called with
Rels == {TESTREL_A, TESTREL_FSM}
DBs == {<<0, TESTDB>>}
NBlocks == {0, 1}
PutBlks == {0}
\* the relations whose blocks are written, extended and truncated
PageRels == {TESTREL_A}
Imgs == {TEST_IMG(1)}
Recs == {"rec"}

\* the two-phase xids, SLRU kinds and segments the writer is called with,
\* and the nblocks of the relations and segments the directory operations create
Xids == {5}
PutSlruKinds == {"Clog"}
Segnos == {0, 1}
DirNBlocks == {1}

\* what the readers ask for: also a visibility-map fork and a relation that
\* are never created, a relation of a database that does not exist, an LSN
\* before the first commit and one after the last
TESTREL_VM == RelTag(0, TESTDB, 1000, VISIBILITYMAP_FORKNUM)
TESTREL_B == RelTag(0, TESTDB, 1001, 0)
OTHERDB_FSM == RelTag(0, TESTDB + 1, 1000, FSM_FORKNUM)
ReadRels == Rels \cup {TESTREL_VM, TESTREL_B, OTHERDB_FSM}
ReadBlks == {0, 1}
ReadLsns == {0, INIT_LSN} \cup LSNs \cup {INIT_LSN + 24}

\* the image layers: two layers of one timeline that differ in their LSN,
\* the keys put (LAYER_KEY_OUT lies outside the key range) and the bytes
LAYER_RANGE == KeyRange(rel_block_to_key(TESTREL_A, 0), rel_block_to_key(TESTREL_A, 2))
LAYER_A == LayerId(1, 1, LAYER_RANGE, INIT_LSN + 8)
LAYER_B == LayerId(1, 1, LAYER_RANGE, INIT_LSN + 16)
LayerIds == {LAYER_A, LAYER_B}
LAYER_KEY_OUT == rel_block_to_key(TESTREL_A, 2)
LayerKeys == {rel_block_to_key(TESTREL_A, 0), rel_block_to_key(TESTREL_A, 1), LAYER_KEY_OUT}
\* the page image written for a key: images of different lengths
LayerImg(key) == IF key = rel_block_to_key(TESTREL_A, 1) THEN <<8, 9>> ELSE <<7>>
LayerPath(id) == path_for(id.timelineid, id.tenantid, ImageFileName(id.key_range, id.lsn))
LayerPaths == { LayerPath(id) : id \in LayerIds }

\* the arguments of the key functions: values at both ends of each field
KeyRels ==
    { RelTag(1663, d, r, f) : d \in {TESTDB, TESTDB + 1},
                              r \in {0, 1000, U32_MAX}, f \in {0, 1, 254, 255} }
KeyBlks == {0, 1, U32_MAX - 1, U32_MAX}
KeyXids == {0, 1, U32_MAX - 1, U32_MAX}
KeySegnos == {0, 1, U32_MAX}
KeyInput(rel, xid, kind, segno, overflow_checks) ==
    [rel |-> rel, xid |-> xid, kind |-> kind, segno |-> segno,
     overflow_checks |-> overflow_checks]
KeyInputs ==
    { KeyInput(rel, xid, kind, segno, overflow_checks) :
        rel \in KeyRels, xid \in KeyXids, kind \in {"Clog", "MultiXactOffsets"},
        segno \in KeySegnos, overflow_checks \in BOOLEAN }
DefaultKeyInput == KeyInput(RelTag(1663, TESTDB, 1000, 0), 0, "Clog", 0, FALSE)

\* TenantState; the tenant configurations: Durations are in milliseconds
TenantStates == {"Active", "Idle", "Stopping"}
TenantConf(checkpoint_distance, checkpoint_period, gc_horizon, gc_period, pitr_interval) ==
    [checkpoint_distance |-> checkpoint_distance,
     checkpoint_period |-> checkpoint_period,
     gc_horizon |-> gc_horizon, gc_period |-> gc_period,
     pitr_interval |-> pitr_interval]
GcHorizons == {0, 64}
GcPeriods == {0, 1500, 2000}
TenantConfs == { TenantConf(256, 1000, h, p, 30000) : h \in GcHorizons, p \in GcPeriods }
DefaultTenantConf == TenantConf(256, 1000, 64, 2000, 30000)
NotInactive == [on |-> FALSE, insleep |-> FALSE, sleeps |-> 0, calls |-> 0]

\* the threads that share the handle, and the calls they make
Threads == {1, 2}
LayerOps == {"get_value_reconstruct_data", "collect_keys", "dump"}
Idle == [pc |-> "idle", op |-> ""]

---------------------------------------------------------------------------
(* State *)

VARIABLES
    tline,          \* the timeline: [puts, dels, last_record_lsn]
    writer,         \* the DatadirTimelineWriter in use
    pc,             \* "idle" | "open" | "finishing" | "done" | "failed"
    todo,           \* finish(): keys of pending_updates not yet put
    ndel,           \* finish(): number of pending_deletions issued
    nput,           \* finish(): number of timeline puts issued
    nops,           \* writer operations that succeeded so far
    ntxns,          \* calls of begin_record so far
    snap,           \* history: the timeline when begin_record was called
    hist,           \* history of this buffer's operations
    ever_created,   \* history: relations whose put_rel_creation was committed
    dropped,        \* history: relations with a committed put_rel_drop and no
                    \* put_rel_creation committed after it
    dropped_intact, \* history: those of them whose database had no drop_dbdir
                    \* committed with or after the drop
    disk,           \* the layer files: [dir, files, ncreate]
    iw,             \* the ImageLayerWriter in use
    layer,          \* the ImageLayer handle in use
    finished,       \* history: for each path at which finish() completed a
                    \* file, [content, puts, clean]: the content of the file,
                    \* the bytes put into it, and whether every put_image
                    \* returned Ok
    mutex,          \* ImageLayer.inner: the thread that holds the MutexGuard, or 0
    thr,            \* the threads that call into the handle: [pc, op]
    nopen,          \* history: times load() opened the file for this handle
    nindex,         \* history: times load() read the index chapter for it
    tenant_state,   \* tenant_mgr::get_tenant_state(tenantid)
    tenant_conf,    \* repo.get_tenant_conf()
    ck,             \* the checkpointer thread: [pc, cycles, woke, called];
                    \* woke is the tenant state when the last sleep ended,
                    \* called the value of woke in the cycles that called
                    \* checkpoint_iteration
    gc,             \* the GC thread: [pc, cycles, observed, sleep_time,
                    \* nsleeps, stayed]
    gc_calls,       \* history: the calls of gc_iteration
    inact,          \* history: what the GC thread did since the tenant
                    \* last left Active: [on, insleep, sleeps, calls]
    kin,            \* the arguments of the key functions, and the build
    kout,           \* the key function last applied and what it returned
    vr,             \* the last read of the handle: [op, before, arg, out,
                    \* after], the handle before and after the call
    twin            \* the handle that is read like layer and never
                    \* unloaded, and what its last read returned

\* the variables of the datadir mapping and those of the image layers
dvars == <<tline, writer, pc, todo, ndel, nput, nops, ntxns, snap, hist,
           ever_created, dropped, dropped_intact>>
ivars == <<disk, iw, layer, finished>>
\* the variables of the threads that share one handle
lvars == <<mutex, thr, nopen, nindex>>
\* the variables outside the datadir mapping and the image layer files
\* the variables of the background threads of a tenant
tvars == <<tenant_state, tenant_conf, ck, gc, gc_calls, inact>>
\* the variables of the calls of the key functions
kvars == <<kin, kout>>
\* the variables of the reads of one handle
rvars == <<vr, twin>>
xvars == <<lvars, tvars, kvars, rvars>>

vars == <<dvars, ivars, xvars>>

NoWriter == begin_record(0)

\* hist.member[rel]  : "created" / "dropped" after the last put_rel_creation /
\*                     put_rel_drop of rel that succeeded on this buffer;
\*                     put_dbdir_creation of its database turns "created"
\*                     back to "none"
\* hist.size[rel]    : nblocks of the last put_rel_creation / put_rel_extend /
\*                     put_rel_truncation of rel on this buffer, -1 if none
\* hist.created      : relations whose put_rel_creation succeeded on this buffer
\* hist.dbdropped    : databases whose drop_dbdir succeeded on this buffer
\* hist.dbmapped     : databases whose last put_relmap_file / drop_dbdir on this
\*                     buffer is a put_relmap_file
NoHist ==
    [member |-> [r \in Rels |-> "none"], size |-> [r \in Rels |-> -1],
     created |-> {}, dbdropped |-> {}, dbmapped |-> {}]

RelDb(rel) == <<rel.spcnode, rel.dbnode>>

InitDatadir ==
    /\ tline = create_test_timeline
    /\ writer = NoWriter
    /\ pc = "idle"
    /\ todo = {}
    /\ ndel = 0
    /\ nput = 0
    /\ nops = 0
    /\ ntxns = 0
    /\ snap = create_test_timeline
    /\ hist = NoHist
    /\ ever_created = {}
    /\ dropped = {}
    /\ dropped_intact = {}

\* no layer file, no writer, no handle
InitImg ==
    /\ disk = EmptyDisk
    /\ iw = NoImageLayerWriter
    /\ layer = NoLayer
    /\ finished = <<>>

\* no thread is inside a call
InitLoaders ==
    /\ mutex = 0
    /\ thr = [t \in Threads |-> Idle]
    /\ nopen = 0
    /\ nindex = 0

\* the tenant is Active and its two threads are about to enter their loops
InitThreadsWith(confs) ==
    /\ tenant_state = "Active"
    /\ tenant_conf \in confs
    /\ ck = [pc |-> "top", cycles |-> 0, woke |-> "Active", called |-> {}]
    /\ gc = [pc |-> "top", cycles |-> 0, observed |-> "Active", sleep_time |-> 0,
             nsleeps |-> 0, stayed |-> TRUE]
    /\ gc_calls = {}
    /\ inact = NotInactive

\* no key function was applied
InitKeysWith(inputs) ==
    /\ kin \in inputs
    /\ kout = [fn |-> "", res |-> Ok(<<>>)]

\* no read was made
InitReads ==
    /\ vr = NoRead
    /\ twin = NoTwin

Init ==
    /\ InitDatadir /\ InitImg /\ InitLoaders
    /\ InitThreadsWith({DefaultTenantConf})
    /\ InitKeysWith({DefaultKeyInput})
    /\ InitReads

---------------------------------------------------------------------------
(* Actions *)

BeginRecord(lsn) ==
    /\ pc \in {"idle", "done", "failed"}
    /\ ntxns < MaxTxns
    /\ ntxns' = ntxns + 1
    /\ writer' = begin_record(lsn)
    /\ pc' = "open"
    /\ todo' = {}
    /\ ndel' = 0
    /\ nput' = 0
    /\ snap' = tline
    /\ hist' = NoHist
    /\ UNCHANGED <<tline, nops, ever_created, dropped, dropped_intact, ivars, xvars>>

\* a writer operation returned r; h is the history if it succeeded
Called(r, h) ==
    /\ pc = "open"
    /\ nops < MaxOps
    /\ writer' = r.w
    /\ todo' = DOMAIN r.w.pending_updates
    /\ nops' = IF r.ok THEN nops + 1 ELSE nops
    /\ hist' = IF r.ok THEN h ELSE hist
    /\ UNCHANGED <<tline, pc, ndel, nput, ntxns, snap, ever_created, dropped, dropped_intact, ivars, xvars>>

PutRelWalRecord(rel, blknum, rec) ==
    Called(put_rel_wal_record(writer, rel, blknum, rec), hist)

PutRelPageImage(rel, blknum, img) ==
    Called(put_rel_page_image(writer, rel, blknum, img), hist)

PutRelmapFile(spcnode, dbnode, img) ==
    Called(put_relmap_file(tline, writer, spcnode, dbnode, img),
           [hist EXCEPT !.dbmapped = @ \cup {<<spcnode, dbnode>>}])

PutDbdirCreation(spcnode, dbnode) ==
    Called(put_dbdir_creation(writer, spcnode, dbnode),
           [hist EXCEPT !.member =
               [r \in Rels |-> IF RelDb(r) = <<spcnode, dbnode>> /\ @[r] = "created"
                               THEN "none" ELSE @[r]]])

DropDbdir(spcnode, dbnode) ==
    Called(drop_dbdir(tline, writer, spcnode, dbnode),
           [hist EXCEPT !.dbdropped = @ \cup {<<spcnode, dbnode>>},
                        !.dbmapped = @ \ {<<spcnode, dbnode>>}])

PutRelCreation(rel, nblocks) ==
    Called(put_rel_creation(tline, writer, rel, nblocks),
           [hist EXCEPT !.member[rel] = "created", !.size[rel] = nblocks,
                        !.created = @ \cup {rel}])

PutRelTruncation(rel, nblocks) ==
    Called(put_rel_truncation(writer, rel, nblocks),
           [hist EXCEPT !.size[rel] = nblocks])

PutRelExtend(rel, nblocks) ==
    Called(put_rel_extend(writer, rel, nblocks),
           [hist EXCEPT !.size[rel] = nblocks])

PutRelDrop(rel) ==
    Called(put_rel_drop(tline, writer, rel),
           [hist EXCEPT !.member[rel] = "dropped"])

PutTwophaseFile(xid, img) ==
    Called(put_twophase_file(tline, writer, xid, img), hist)

PutSlruSegmentCreation(kind, segno, nblocks) ==
    Called(put_slru_segment_creation(tline, writer, kind, segno, nblocks), hist)

DropSlruSegment(kind, segno) ==
    Called(drop_slru_segment(tline, writer, kind, segno), hist)

DropTwophaseFile(xid) ==
    Called(drop_twophase_file(tline, writer, xid), hist)

\* a writer that hands its buffer to the timeline when it goes out of scope
DropWriterCommits ==
    /\ pc = "open"
    /\ pc' = "idle"
    /\ tline' = LET fin == finish(tline, writer) IN IF fin.ok THEN fin.val ELSE tline
    /\ writer' = NoWriter
    /\ todo' = {}
    /\ hist' = NoHist
    /\ snap' = tline'
    /\ UNCHANGED <<ndel, nput, nops, ntxns, ever_created, dropped, dropped_intact, ivars, xvars>>

\* the writer goes out of scope without finish()
DropWriter ==
    /\ pc = "open"
    /\ pc' = "idle"
    /\ writer' = NoWriter
    /\ todo' = {}
    /\ hist' = NoHist
    /\ snap' = tline
    /\ UNCHANGED <<tline, ndel, nput, nops, ntxns, ever_created, dropped, dropped_intact, ivars, xvars>>

(* finish() takes the buffer by value and makes its timeline calls one by  *)
(* one: pc is "finishing" from the first call that succeeded to the last.  *)
(* todo is kept equal to the keys of pending_updates while the buffer is   *)
(* open.                                                                   *)

\* finish() does not return Ok: a timeline call failed; the buffer is gone
FinishFailed ==
    /\ pc' = "failed"
    /\ writer' = NoWriter
    /\ hist' = NoHist
    /\ todo' = {}
    /\ ndel' = 0
    /\ nput' = 0
    /\ UNCHANGED <<tline, nops, ntxns, snap, ever_created, dropped, dropped_intact, ivars, xvars>>

\* one iteration of `for (key, value) in self.pending_updates`; a HashMap
\* iterates in an arbitrary order
FinishPut(key) ==
    /\ pc \in {"open", "finishing"}
    /\ key \in todo
    /\ LET r == finish_put(tline, writer, key) IN
       IF r.ok
       THEN /\ tline' = r.val
            /\ todo' = todo \ {key}
            /\ nput' = nput + 1
            /\ pc' = "finishing"
            /\ UNCHANGED <<writer, ndel, nops, ntxns, snap, hist, ever_created, dropped, dropped_intact, ivars, xvars>>
       ELSE FinishFailed

\* a finish() that issues a range delete while updates are still pending
FinishDeleteBeforePuts ==
    /\ pc \in {"open", "finishing"}
    /\ ndel < Len(writer.pending_deletions)
    /\ LET r == finish_delete(tline, writer, ndel + 1) IN
       IF r.ok
       THEN /\ tline' = r.val
            /\ ndel' = ndel + 1
            /\ pc' = "finishing"
            /\ UNCHANGED <<writer, todo, nput, nops, ntxns, snap, hist, ever_created, dropped, dropped_intact, ivars, xvars>>
       ELSE FinishFailed

\* one iteration of `for key_range in self.pending_deletions`
FinishDelete ==
    /\ pc \in {"open", "finishing"}
    /\ todo = {}
    /\ ndel < Len(writer.pending_deletions)
    /\ LET r == finish_delete(tline, writer, ndel + 1) IN
       IF r.ok
       THEN /\ tline' = r.val
            /\ ndel' = ndel + 1
            /\ pc' = "finishing"
            /\ UNCHANGED <<writer, todo, nput, nops, ntxns, snap, hist, ever_created, dropped, dropped_intact, ivars, xvars>>
       ELSE FinishFailed

\* Ok(()): the buffer is committed on timeline tl
FinishReturnsOk(tl) ==
    /\ tline' = tl
    /\ pc' = "done"
    /\ ever_created' = ever_created \cup hist.created
    /\ dropped' =
          { r \in dropped : r \notin hist.created }
          \cup { r \in Rels : hist.member[r] = "dropped" }
    /\ dropped_intact' =
          { r \in dropped_intact : r \notin hist.created /\ RelDb(r) \notin hist.dbdropped }
          \cup { r \in Rels : hist.member[r] = "dropped" /\ RelDb(r) \notin hist.dbdropped }
    /\ UNCHANGED <<writer, todo, ndel, nput, nops, ntxns, snap, hist, ivars, xvars>>

\* writer.advance_last_record_lsn(self.lsn); Ok(())
FinishAdvance ==
    /\ pc \in {"open", "finishing"}
    /\ todo = {}
    /\ ndel = Len(writer.pending_deletions)
    /\ LET r == finish_advance(tline, writer) IN
       IF r.ok
       THEN FinishReturnsOk(r.val)
       ELSE FinishFailed

Next ==
    \/ \E lsn \in LSNs : BeginRecord(lsn)
    \/ \E rel \in PageRels, blknum \in PutBlks, rec \in Recs : PutRelWalRecord(rel, blknum, rec)
    \/ \E rel \in PageRels, blknum \in PutBlks, img \in Imgs : PutRelPageImage(rel, blknum, img)
    \/ \E db \in DBs, img \in Imgs : PutRelmapFile(db[1], db[2], img)
    \/ \E db \in DBs : PutDbdirCreation(db[1], db[2])
    \/ \E db \in DBs : DropDbdir(db[1], db[2])
    \/ \E rel \in Rels, nblocks \in NBlocks : PutRelCreation(rel, nblocks)
    \/ \E rel \in PageRels, nblocks \in NBlocks : PutRelTruncation(rel, nblocks)
    \/ \E rel \in PageRels, nblocks \in NBlocks : PutRelExtend(rel, nblocks)
    \/ \E rel \in Rels : PutRelDrop(rel)
    \/ DropWriter
    \/ \E key \in todo : FinishPut(key)
    \/ FinishDelete
    \/ FinishAdvance

Spec == Init /\ [][Next]_vars

(* The directory operations: the four directories with their insertions    *)
(* and drops, on the timeline of create_test_timeline.                      *)
NextDir ==
    \/ \E lsn \in LSNs : BeginRecord(lsn)
    \/ \E db \in DBs, img \in Imgs : PutRelmapFile(db[1], db[2], img)
    \/ \E xid \in Xids, img \in Imgs : PutTwophaseFile(xid, img)
    \/ \E kind \in PutSlruKinds, segno \in Segnos, nblocks \in DirNBlocks :
          PutSlruSegmentCreation(kind, segno, nblocks)
    \/ \E rel \in Rels, nblocks \in DirNBlocks : PutRelCreation(rel, nblocks)
    \/ \E db \in DBs : DropDbdir(db[1], db[2])
    \/ \E rel \in Rels : PutRelDrop(rel)
    \/ \E kind \in PutSlruKinds, segno \in Segnos : DropSlruSegment(kind, segno)
    \/ \E xid \in Xids : DropTwophaseFile(xid)
    \/ DropWriter
    \/ \E key \in todo : FinishPut(key)
    \/ FinishDelete
    \/ FinishAdvance

SpecDir == Init /\ [][NextDir]_vars

(* finish() with timeline calls that fail: writer.put and writer.delete      *)
(* return a Result, and finish() leaves with the first error (the ? of      *)
(* lines 632 and 635).  The calls made before the failing one are not taken *)
(* back.                                                                    *)

\* writer.put(key, self.lsn, value)? returns with an error of the timeline
FinishPutFails ==
    /\ pc \in {"open", "finishing"}
    /\ todo # {}
    /\ FinishFailed

\* writer.delete(key_range, self.lsn)? returns with an error of the timeline
FinishDeleteFails ==
    /\ pc \in {"open", "finishing"}
    /\ todo = {}
    /\ ndel < Len(writer.pending_deletions)
    /\ FinishFailed

NextFail ==
    \/ \E lsn \in LSNs : BeginRecord(lsn)
    \/ \E rel \in Rels, nblocks \in DirNBlocks : PutRelCreation(rel, nblocks)
    \/ \E rel \in Rels : PutRelDrop(rel)
    \/ DropWriter
    \/ \E key \in todo : FinishPut(key)
    \/ FinishDelete
    \/ FinishAdvance
    \/ FinishPutFails
    \/ FinishDeleteFails

SpecFail == Init /\ [][NextFail]_vars

(* The relation directory of a database with the operations that write it:  *)
(* put_dbdir_creation, put_rel_creation, put_rel_drop and drop_dbdir.        *)
NextRelDir ==
    \/ \E lsn \in LSNs : BeginRecord(lsn)
    \/ \E db \in DBs : PutDbdirCreation(db[1], db[2])
    \/ \E rel \in Rels, nblocks \in DirNBlocks : PutRelCreation(rel, nblocks)
    \/ \E rel \in Rels : PutRelDrop(rel)
    \/ \E db \in DBs : DropDbdir(db[1], db[2])
    \/ DropWriter
    \/ \E key \in todo : FinishPut(key)
    \/ FinishDelete
    \/ FinishAdvance

SpecRelDir == Init /\ [][NextRelDir]_vars

---------------------------------------------------------------------------
(* Actions on the image layers *)

\* the file at path p is the one finish() completed there
Intact(p) ==
    /\ p \in DOMAIN finished
    /\ p \in DOMAIN disk.dir
    /\ disk.files[disk.dir[p]] = finished[p].content

\* the disk without the inodes that no path, no writer and no open book
\* refers to any more
Forget(d, w, l) ==
    LET used == { d.dir[p] : p \in DOMAIN d.dir }
                \cup (IF w.alive THEN {w.ino} ELSE {})
                \cup (IF l.alive /\ l.book.open THEN {l.book.ino} ELSE {})
    IN [d EXCEPT !.files = [i \in (DOMAIN @) \cap used |-> @[i]]]

\* a file is created or truncated at the layer's path
ImageLayerWriterNew(id, fail) ==
    /\ ~iw.alive
    /\ disk.ncreate < MaxCreates
    /\ LET r == ImageLayerWriter_new(disk, id.timelineid, id.tenantid,
                                     id.key_range, id.lsn, fail)
       IN /\ iw' = r.w
          /\ disk' = Forget(r.d, r.w, layer)
    /\ UNCHANGED <<layer, finished, dvars, xvars>>

\* the writer is dropped: it went out of scope, or a panic unwinds
Dropped(d, w) ==
    /\ iw' = NoImageLayerWriter
    /\ disk' = Forget(ImageLayerWriter_drop(d, w), NoImageLayerWriter, layer)

\* the callers leave with the error of a failed put_image, which drops the
\* writer: no further call is made on it
PutImage(key, img, fail) ==
    /\ iw.alive
    /\ iw.clean
    /\ LET r == put_image(disk, iw, key, img, fail) IN
       IF r.kind = "panic" THEN Dropped(r.d, r.w)
       ELSE disk' = r.d /\ iw' = r.w
    /\ UNCHANGED <<layer, finished, dvars, xvars>>

ImageLayerWriterFinish(fail) ==
    /\ iw.alive
    /\ iw.clean
    /\ LET r == ImageLayerWriter_finish(disk, iw, fail) IN
       IF r.kind = "panic"
       THEN Dropped(r.d, r.w) /\ UNCHANGED <<layer, finished>>
       ELSE /\ iw' = r.w
            /\ layer' = IF r.kind = "ok" THEN r.layer ELSE layer
            /\ disk' = Forget(r.d, iw', layer')
            /\ finished' =
                  IF r.kind = "ok" /\ iw.path \in DOMAIN disk.dir
                                  /\ disk.dir[iw.path] = iw.ino
                  THEN Upd(finished, iw.path,
                           [content |-> r.d.files[iw.ino], puts |-> iw.puts,
                            clean |-> iw.clean])
                  ELSE finished
    /\ UNCHANGED <<dvars, xvars>>

ImageLayerWriterDrop ==
    /\ iw.alive
    /\ Dropped(disk, iw)
    /\ UNCHANGED <<layer, finished, dvars, xvars>>

ImageLayerNew(id) ==
    /\ layer' = ImageLayer_new(id.timelineid, id.tenantid,
                               ImageFileName(id.key_range, id.lsn))
    /\ layer' # layer
    /\ disk' = Forget(disk, iw, layer')
    /\ UNCHANGED <<iw, finished, dvars, xvars>>

\* dump_layerfile: opens the book at path p and builds the handle from it
ImageLayerNewForPath(p) ==
    /\ open_book(disk, p).ok
    /\ LET r == new_for_path(disk, p, open_book(disk, p).val) IN
       /\ r.ok
       /\ layer' = r.val
    /\ layer' # layer
    /\ disk' = Forget(disk, iw, layer')
    /\ UNCHANGED <<iw, finished, dvars, xvars>>

GetValueReconstructData(key) ==
    /\ layer.alive
    /\ RangeContains(layer.key_range, key)
    /\ layer' = get_value_reconstruct_data(disk, layer, layer.lsn,
                    ValueReconstructState(key, layer.lsn, NoImg)).layer
    /\ UNCHANGED <<disk, iw, finished, dvars, xvars>>

CollectKeys ==
    /\ layer.alive
    /\ layer' = collect_keys(disk, layer, layer.key_range, {}).layer
    /\ UNCHANGED <<disk, iw, finished, dvars, xvars>>

Unload ==
    /\ layer.alive
    /\ layer' = unload(layer)
    /\ UNCHANGED <<disk, iw, finished, dvars, xvars>>

\* ImageLayer::delete; what finished records for the path goes with the file
ImageLayerDelete ==
    /\ layer.alive
    /\ LET r == ImageLayer_delete(disk, layer) IN
       /\ r.ok
       /\ disk' = Forget(r.val, iw, layer)
       /\ finished' = IF path(layer) \in DOMAIN finished
                       THEN Without(finished, path(layer)) ELSE finished
    /\ UNCHANGED <<iw, layer, dvars, xvars>>

\* the disk after the file at src was copied to dst
copy_file(d, src, dst) ==
    LET d1 == create(d, dst)
        file == [d.files[d.dir[src]] EXCEPT !.gen = d1.ncreate]
    IN [d1 EXCEPT !.files[d1.dir[dst]] = file]

\* outside the pageserver: a complete layer file is copied to the path of
\* another layer
CopyLayerFile(src, dst) ==
    /\ src \in DOMAIN disk.dir
    /\ dst \notin DOMAIN disk.dir
    /\ disk.files[disk.dir[src]].trailer
    /\ disk.ncreate < MaxCreates
    /\ disk' = copy_file(disk, src, dst)
    /\ UNCHANGED <<iw, layer, finished, dvars, xvars>>

NextImg ==
    \/ \E fail \in NewFails : ImageLayerWriterNew(LAYER_A, fail)
    \/ \E key \in LayerKeys, fail \in PutFails : PutImage(key, LayerImg(key), fail)
    \/ \E fail \in FinishFails : ImageLayerWriterFinish(fail)
    \/ ImageLayerWriterDrop
    \/ \E id \in LayerIds : ImageLayerNew(id)
    \/ \E p \in LayerPaths : ImageLayerNewForPath(p)
    \/ \E key \in LayerKeys : GetValueReconstructData(key)
    \/ CollectKeys
    \/ Unload
    \/ ImageLayerDelete
    \/ CopyLayerFile(LayerPath(LAYER_A), LayerPath(LAYER_B))

SpecImg == Init /\ [][NextImg]_vars

---------------------------------------------------------------------------
(* Threads that share one ImageLayer handle.  Every call starts with      *)
(* load(), which takes the mutex of inner and returns the guard; the      *)
(* caller holds the guard until it returns.                               *)

\* the layer file of LAYER_A with two images, as a writer leaves it
WrittenLayer ==
    LET k0 == rel_block_to_key(TESTREL_A, 0)
        k1 == rel_block_to_key(TESTREL_A, 1)
        w0 == ImageLayerWriter_new(EmptyDisk, LAYER_A.timelineid, LAYER_A.tenantid,
                                   LAYER_A.key_range, LAYER_A.lsn, "none")
        w1 == put_image(w0.d, w0.w, k1, LayerImg(k1), "none")
        w2 == put_image(w1.d, w1.w, k0, LayerImg(k0), "none")
    IN [d |-> ImageLayerWriter_finish(w2.d, w2.w, "none").d, index |-> w2.w.index]

\* the disks the handle is used on: without the file, with the file of
\* LAYER_A, and with a copy of it at the path of LAYER_B
LoadDisks ==
    { EmptyDisk, WrittenLayer.d,
      copy_file(WrittenLayer.d, LayerPath(LAYER_A), LayerPath(LAYER_B)) }

InitLoad ==
    /\ InitDatadir
    /\ disk \in LoadDisks
    /\ iw = NoImageLayerWriter
    /\ layer = NoLayer
    /\ finished = <<>>
    /\ InitLoaders
    /\ InitThreadsWith({DefaultTenantConf})
    /\ InitKeysWith({DefaultKeyInput})
    /\ InitReads

\* ImageLayer::new: the handle the threads share from now on
NewHandle(id) ==
    /\ \A t \in Threads : thr[t] = Idle
    /\ layer' = ImageLayer_new(id.timelineid, id.tenantid,
                               ImageFileName(id.key_range, id.lsn))
    /\ layer' # layer
    /\ nopen' = 0
    /\ nindex' = 0
    /\ UNCHANGED <<disk, iw, finished, mutex, thr, dvars, tvars, kvars, rvars>>

\* a thread calls get_value_reconstruct_data, collect_keys or dump
Call(t, op) ==
    /\ layer.alive
    /\ thr[t] = Idle
    /\ thr' = [thr EXCEPT ![t] = [pc |-> "lock", op |-> op]]
    /\ UNCHANGED <<mutex, nopen, nindex, dvars, ivars, tvars, kvars, rvars>>

\* a lock that does not wait for the holder of the guard
LockUnguarded(t) ==
    /\ thr[t].pc = "lock"
    /\ mutex' = t
    /\ thr' = [thr EXCEPT ![t].pc = "locked"]
    /\ UNCHANGED <<nopen, nindex, dvars, ivars, tvars, kvars, rvars>>

\* self.inner.lock().unwrap()
Lock(t) ==
    /\ thr[t].pc = "lock"
    /\ mutex = 0
    /\ mutex' = t
    /\ thr' = [thr EXCEPT ![t].pc = "locked"]
    /\ UNCHANGED <<nopen, nindex, dvars, ivars, tvars, kvars, rvars>>

\* quick exit if already loaded; else on to the file
LoadEnter(t) ==
    /\ thr[t].pc = "locked"
    /\ thr' = [thr EXCEPT ![t].pc = IF layer.loaded THEN "body"
                                    ELSE IF layer.book.open THEN "read"
                                    ELSE "open"]
    /\ UNCHANGED <<mutex, nopen, nindex, dvars, ivars, tvars, kvars, rvars>>

\* the call returns: the guard is dropped
Unlocked(t) ==
    /\ thr' = [thr EXCEPT ![t] = Idle]
    /\ mutex' = IF mutex = t THEN 0 ELSE mutex

\* Open the file if it's not open already
LoadOpen(t) ==
    /\ thr[t].pc = "open"
    /\ LET opened == open_book(disk, path(layer)) IN
       IF opened.ok
       THEN /\ layer' = [layer EXCEPT !.book = opened.val]
            /\ nopen' = nopen + 1
            /\ thr' = [thr EXCEPT ![t].pc = "read"]
            /\ UNCHANGED mutex
       ELSE /\ Unlocked(t)
            /\ UNCHANGED <<layer, nopen>>
    /\ UNCHANGED <<disk, iw, finished, nindex, dvars, tvars, kvars, rvars>>

\* the rest of load(): the summary is compared and the index chapter read
LoadRead(t) ==
    /\ thr[t].pc = "read"
    /\ LET inner == load(disk, layer) IN
       /\ layer' = inner.layer
       /\ IF inner.ok
          THEN /\ nindex' = nindex + 1
               /\ thr' = [thr EXCEPT ![t].pc = "body"]
               /\ UNCHANGED mutex
          ELSE /\ Unlocked(t)
               /\ UNCHANGED nindex
    /\ UNCHANGED <<disk, iw, finished, nopen, dvars, tvars, kvars, rvars>>

\* the caller uses inner.index and returns
Return(t) ==
    /\ thr[t].pc = "body"
    /\ Unlocked(t)
    /\ UNCHANGED <<nopen, nindex, dvars, ivars, tvars, kvars, rvars>>

NextLoad ==
    \/ \E id \in LayerIds : NewHandle(id)
    \/ \E t \in Threads, op \in LayerOps : Call(t, op)
    \/ \E t \in Threads : Lock(t)
    \/ \E t \in Threads : LoadEnter(t)
    \/ \E t \in Threads : LoadOpen(t)
    \/ \E t \in Threads : LoadRead(t)
    \/ \E t \in Threads : Return(t)

SpecLoad == InitLoad /\ [][NextLoad]_vars

---------------------------------------------------------------------------
(* The background threads of a tenant: checkpoint_loop and gc_loop.  The  *)
(* tenant manager changes the tenant's state at any time.                  *)

InitThreads ==
    /\ InitDatadir /\ InitImg /\ InitLoaders
    /\ InitThreadsWith(TenantConfs)
    /\ InitKeysWith({DefaultKeyInput})
    /\ InitReads

\* Duration::as_secs of a Duration in milliseconds
as_secs(ms) == ms \div 1000

\* the tenant manager moves the tenant to another state
SetTenantState(state) ==
    /\ state # tenant_state
    /\ tenant_state' = state
    /\ gc' = IF state # "Active" THEN [gc EXCEPT !.stayed = FALSE] ELSE gc
    /\ inact' = IF state = "Active" THEN NotInactive
                ELSE IF tenant_state = "Active"
                THEN [on |-> TRUE,
                      insleep |-> gc.pc \in {"while", "tick", "sleeping"},
                      sleeps |-> 0, calls |-> 0]
                ELSE inact
    /\ UNCHANGED <<tenant_conf, ck, gc_calls, dvars, ivars, lvars, kvars, rvars>>

\* a checkpoint_loop that does not test the tenant state
CheckpointTopUnchecked(found) ==
    /\ ck.pc = "top"
    /\ ck.cycles < MaxCycles
    /\ ck' = [ck EXCEPT !.pc = IF found THEN "sleep" ELSE "failed"]
    /\ UNCHANGED <<tenant_state, tenant_conf, gc, gc_calls, inact, dvars, ivars, lvars, kvars, rvars>>

\* checkpoint_loop: the test at the top of the loop and the lookup of the
\* repository
CheckpointTop(found) ==
    /\ ck.pc = "top"
    /\ IF tenant_state # "Active" THEN ck' = [ck EXCEPT !.pc = "stopped"]
       ELSE /\ ck.cycles < MaxCycles
            /\ ck' = [ck EXCEPT !.pc = IF found THEN "sleep" ELSE "failed"]
    /\ UNCHANGED <<tenant_state, tenant_conf, gc, gc_calls, inact, dvars, ivars, lvars, kvars, rvars>>

\* std::thread::sleep(tenant_conf.checkpoint_period) returns
CheckpointWake ==
    /\ ck.pc = "sleep"
    /\ ck' = [ck EXCEPT !.pc = "call", !.woke = tenant_state]
    /\ UNCHANGED <<tenant_state, tenant_conf, gc, gc_calls, inact, dvars, ivars, lvars, kvars, rvars>>

\* repo.checkpoint_iteration(CheckpointConfig::Distance(checkpoint_distance))?
CheckpointIteration(ok) ==
    /\ ck.pc = "call"
    /\ ck' = [ck EXCEPT !.pc = IF ok THEN "top" ELSE "failed",
                        !.called = @ \cup {ck.woke},
                        !.cycles = @ + 1]
    /\ UNCHANGED <<tenant_state, tenant_conf, gc, gc_calls, inact, dvars, ivars, lvars, kvars, rvars>>

\* gc_loop: the test at the top of the loop and the lookup of the repository
GcTop(found) ==
    /\ gc.pc = "top"
    /\ IF tenant_state # "Active" THEN gc' = [gc EXCEPT !.pc = "stopped"]
       ELSE /\ gc.cycles < MaxCycles
            /\ gc' = [gc EXCEPT !.pc = IF found THEN "horizon" ELSE "failed",
                                !.observed = tenant_state]
    /\ UNCHANGED <<tenant_state, tenant_conf, ck, gc_calls, inact, dvars, ivars, lvars, kvars, rvars>>

\* the GC thread enters its sleep phase
GcToSleepPhase(ok) ==
    [gc EXCEPT !.pc = IF ok THEN "while" ELSE "panicked",
               !.sleep_time = as_secs(tenant_conf.gc_period),
               !.nsleeps = 0,
               !.stayed = tenant_state = "Active"]

\* the call of gc_iteration, made in the cycle in which the thread observed
\* the tenant state observed
GcCall(observed) ==
    [observed |-> observed,
     args |-> <<"None", tenant_conf.gc_horizon, tenant_conf.pitr_interval, FALSE>>]

\* a GC thread that collects whatever gc_horizon is
GcIterationAlways(ok) ==
    /\ gc.pc = "horizon"
    /\ gc_calls' = gc_calls \cup {GcCall(gc.observed)}
    /\ inact' = IF inact.on THEN [inact EXCEPT !.calls = @ + 1] ELSE inact
    /\ gc' = GcToSleepPhase(ok)
    /\ UNCHANGED <<tenant_state, tenant_conf, ck, dvars, ivars, lvars, kvars, rvars>>

\* Garbage collect old files that are not needed for PITR anymore
GcIteration(ok) ==
    /\ gc.pc = "horizon"
    /\ IF tenant_conf.gc_horizon > 0
       THEN /\ gc_calls' = gc_calls \cup {GcCall(gc.observed)}
            /\ inact' = IF inact.on THEN [inact EXCEPT !.calls = @ + 1] ELSE inact
            /\ gc' = GcToSleepPhase(ok)
       ELSE /\ ok
            /\ gc' = GcToSleepPhase(TRUE)
            /\ UNCHANGED <<gc_calls, inact>>
    /\ UNCHANGED <<tenant_state, tenant_conf, ck, dvars, ivars, lvars, kvars, rvars>>

\* a sleep loop that does not look at the tenant state
GcWhileUnchecked ==
    /\ gc.pc = "while"
    /\ gc' = IF gc.sleep_time > 0
             THEN [gc EXCEPT !.pc = "tick"]
             ELSE [gc EXCEPT !.pc = "top", !.cycles = @ + 1]
    /\ UNCHANGED <<tenant_state, tenant_conf, ck, gc_calls, inact, dvars, ivars, lvars, kvars, rvars>>

\* while sleep_time > 0 && get_tenant_state(tenantid) == Some(Active)
GcWhile ==
    /\ gc.pc = "while"
    /\ gc' = IF gc.sleep_time > 0 /\ tenant_state = "Active"
             THEN [gc EXCEPT !.pc = "tick"]
             ELSE [gc EXCEPT !.pc = "top", !.cycles = @ + 1]
    /\ UNCHANGED <<tenant_state, tenant_conf, ck, gc_calls, inact, dvars, ivars, lvars, kvars, rvars>>

\* sleep_time -= 1; the one-second sleep begins
GcTick ==
    /\ gc.pc = "tick"
    /\ gc' = [gc EXCEPT !.pc = "sleeping", !.sleep_time = @ - 1, !.nsleeps = @ + 1]
    /\ inact' = IF inact.on THEN [inact EXCEPT !.sleeps = @ + 1] ELSE inact
    /\ UNCHANGED <<tenant_state, tenant_conf, ck, gc_calls, dvars, ivars, lvars, kvars, rvars>>

\* std::thread::sleep(Duration::from_secs(1)) returns
GcWake ==
    /\ gc.pc = "sleeping"
    /\ gc' = [gc EXCEPT !.pc = "while"]
    /\ UNCHANGED <<tenant_state, tenant_conf, ck, gc_calls, inact, dvars, ivars, lvars, kvars, rvars>>

\* the steps of the GC thread
GcStep ==
    \/ \E found \in BOOLEAN : GcTop(found)
    \/ \E ok \in BOOLEAN : GcIteration(ok)
    \/ GcWhile
    \/ GcTick
    \/ GcWake

NextThreads ==
    \/ \E state \in TenantStates : SetTenantState(state)
    \/ \E found \in BOOLEAN : CheckpointTop(found)
    \/ CheckpointWake
    \/ \E ok \in BOOLEAN : CheckpointIteration(ok)
    \/ \E found \in BOOLEAN : GcTop(found)
    \/ \E ok \in BOOLEAN : GcIteration(ok)
    \/ GcWhile
    \/ GcTick
    \/ GcWake

SpecThreads == InitThreads /\ [][NextThreads]_vars

\* the GC thread is scheduled, and its sleeps end
SpecThreadsFair == SpecThreads /\ WF_vars(GcStep)

\* the steps of the checkpointer thread
CheckpointStep ==
    \/ \E found \in BOOLEAN : CheckpointTop(found)
    \/ CheckpointWake
    \/ \E ok \in BOOLEAN : CheckpointIteration(ok)

\* both threads are scheduled, their sleeps end and the calls of
\* checkpoint_iteration and gc_iteration return
SpecLoopsFair == SpecThreads /\ WF_vars(GcStep) /\ WF_vars(CheckpointStep)

---------------------------------------------------------------------------
(* The key functions, applied to the arguments kin *)

InitKeys ==
    /\ InitDatadir /\ InitImg /\ InitLoaders
    /\ InitThreadsWith({DefaultTenantConf})
    /\ InitKeysWith(KeyInputs)
    /\ InitReads

\* kout after function fn returned res
Applied(fn, res) ==
    /\ kout.fn # fn
    /\ kout' = [fn |-> fn, res |-> res]
    /\ UNCHANGED <<kin, dvars, ivars, lvars, tvars, rvars>>

RelKeyRange == Applied("rel_key_range", rel_key_range_built(kin.rel, kin.overflow_checks))

DbdirKeyRange ==
    Applied("dbdir_key_range", Ok(dbdir_key_range(kin.rel.spcnode, kin.rel.dbnode)))

SlruSegmentKeyRange ==
    Applied("slru_segment_key_range", Ok(slru_segment_key_range(kin.kind, kin.segno)))

TwophaseKeyRange == Applied("twophase_key_range", Ok(twophase_key_range(kin.xid)))

\* a logical object of the key space: the builder that makes its key and
\* the arguments the builder takes (the others are left at their defaults)
KeyObject(builder, rel, blknum, kind, segno, xid) ==
    [builder |-> builder, rel |-> rel, blknum |-> blknum, kind |-> kind,
     segno |-> segno, xid |-> xid]
NoRel == RelTag(0, 0, 0, 0)
Singleton(builder) == KeyObject(builder, NoRel, 0, "", 0, 0)
DbObject(builder, spcnode, dbnode) ==
    KeyObject(builder, RelTag(spcnode, dbnode, 0, 0), 0, "", 0, 0)

\* the key of an object, from its builder
ObjectKey(o) ==
    CASE o.builder = "DBDIR_KEY" -> DBDIR_KEY
      [] o.builder = "relmap_file_key" -> relmap_file_key(o.rel.spcnode, o.rel.dbnode)
      [] o.builder = "rel_dir_to_key" -> rel_dir_to_key(o.rel.spcnode, o.rel.dbnode)
      [] o.builder = "rel_block_to_key" -> rel_block_to_key(o.rel, o.blknum)
      [] o.builder = "rel_size_to_key" -> rel_size_to_key(o.rel)
      [] o.builder = "slru_dir_to_key" -> slru_dir_to_key(o.kind)
      [] o.builder = "slru_block_to_key" -> slru_block_to_key(o.kind, o.segno, o.blknum)
      [] o.builder = "slru_segment_size_to_key" -> slru_segment_size_to_key(o.kind, o.segno)
      [] o.builder = "TWOPHASEDIR_KEY" -> TWOPHASEDIR_KEY
      [] o.builder = "twophase_file_key" -> twophase_file_key(o.xid)
      [] o.builder = "CONTROLFILE_KEY" -> CONTROLFILE_KEY
      [] o.builder = "CHECKPOINT_KEY" -> CHECKPOINT_KEY

\* the objects of the arguments in: the singletons, the directories of its
\* tablespace and of tablespace 0, the
\* relation of in and the first relation number of its database with their
\* blocks and sizes, the segment of in and segment 0, the xid of in and xid 1
KeyObjects(in) ==
    LET rels == {in.rel, RelTag(in.rel.spcnode, in.rel.dbnode, 0, 0)}
        segnos == {in.segno, 0}
    IN { Singleton(b) : b \in {"DBDIR_KEY", "TWOPHASEDIR_KEY", "CONTROLFILE_KEY",
                                "CHECKPOINT_KEY"} }
       \cup { DbObject(b, in.rel.spcnode, d) :
                 b \in {"relmap_file_key", "rel_dir_to_key"}, d \in {TESTDB, TESTDB + 1} }
       \cup { DbObject(b, 0, 0) : b \in {"relmap_file_key", "rel_dir_to_key"} }
       \cup { KeyObject("rel_block_to_key", rel, blk, "", 0, 0) :
                 rel \in rels, blk \in KeyBlks }
       \cup { KeyObject("rel_size_to_key", rel, 0, "", 0, 0) : rel \in rels }
       \cup { KeyObject("slru_dir_to_key", NoRel, 0, kind, 0, 0) : kind \in SlruKinds }
       \cup { KeyObject("slru_block_to_key", NoRel, blk, in.kind, segno, 0) :
                 segno \in segnos, blk \in KeyBlks }
       \cup { KeyObject("slru_segment_size_to_key", NoRel, 0, in.kind, segno, 0) :
                 segno \in segnos }
       \cup { KeyObject("twophase_file_key", NoRel, 0, "", 0, xid) : xid \in {in.xid, 1} }

\* every builder applied to its objects
BuildKeys == Applied("keys", Ok([o \in KeyObjects(kin) |-> ObjectKey(o)]))

NextKeys ==
    \/ RelKeyRange
    \/ DbdirKeyRange
    \/ SlruSegmentKeyRange
    \/ TwophaseKeyRange
    \/ BuildKeys

SpecKeys == InitKeys /\ [][NextKeys]_vars

---------------------------------------------------------------------------
(* Reads of one ImageLayer handle: get_value_reconstruct_data with the      *)
(* states a caller can pass, collect_keys and unload, on layer files that   *)
(* no one changes.  twin is given the same reads and is never unloaded.     *)

RECURSIVE PutImages(_, _)
\* the writer after put_image of the keys of ks, in their order
PutImages(r, ks) ==
    IF ks = <<>> THEN r
    ELSE PutImages(put_image(r.d, r.w, Head(ks), LayerImg(Head(ks)), "none"), Tail(ks))

\* the layer file of LAYER_A as a writer leaves it after putting ks, with
\* what finished records for it
WrittenWith(ks) ==
    LET w0 == ImageLayerWriter_new(EmptyDisk, LAYER_A.timelineid, LAYER_A.tenantid,
                                   LAYER_A.key_range, LAYER_A.lsn, "none")
        w == PutImages(w0, ks)
        d == ImageLayerWriter_finish(w.d, w.w, "none").d
    IN [d |-> d,
        finished |-> Upd(<<>>, w.w.path,
                         [content |-> d.files[w.w.ino], puts |-> w.w.puts,
                          clean |-> TRUE])]

\* the files the handle is used on: none, the file of LAYER_A with both of
\* its keys, with one of them, with none, and a copy of it at the path of
\* LAYER_B
ReadFiles ==
    LET k0 == rel_block_to_key(TESTREL_A, 0)
        k1 == rel_block_to_key(TESTREL_A, 1)
        both == WrittenWith(<<k1, k0>>)
    IN { [d |-> EmptyDisk, finished |-> <<>>],
         both, WrittenWith(<<k1>>), WrittenWith(<<>>),
         [both EXCEPT !.d = copy_file(both.d, LayerPath(LAYER_A), LayerPath(LAYER_B))] }

\* the cached images a caller can hold: none, one older than the layer, one
\* of the layer's lsn and a newer one
ReadImgs(l) ==
    { NoImg, SomeImg(l.lsn - 8, <<5>>), SomeImg(l.lsn, <<5>>), SomeImg(l.lsn + 8, <<6>>) }

\* reconstruct_state.lsn >= self.lsn
ReadStateLsns(l) == { l.lsn, l.lsn + 8 }

ReadRanges == { LAYER_RANGE,
                KeyRange(rel_block_to_key(TESTREL_A, 1), rel_block_to_key(TESTREL_A, 2)) }

InitRead ==
    /\ InitDatadir
    /\ \E f \in ReadFiles : disk = f.d /\ finished = f.finished
    /\ iw = NoImageLayerWriter
    /\ layer = NoLayer
    /\ InitLoaders
    /\ InitThreadsWith({DefaultTenantConf})
    /\ InitKeysWith({DefaultKeyInput})
    /\ InitReads

\* ImageLayer::new: a handle, and its twin
ReadNew(id) ==
    /\ layer' = ImageLayer_new(id.timelineid, id.tenantid,
                               ImageFileName(id.key_range, id.lsn))
    /\ twin' = [layer |-> layer', out |-> NoOut]
    /\ vr' = NoRead
    /\ UNCHANGED <<disk, iw, finished, dvars, lvars, tvars, kvars>>

\* get_value_reconstruct_data(self.lsn, state); the assertions of the call
\* hold
ReadValue(key, lsn, img) ==
    /\ layer.alive
    /\ RangeContains(layer.key_range, key)
    /\ lsn >= layer.lsn
    /\ LET state == ValueReconstructState(key, lsn, img)
           r == get_value_reconstruct_data(disk, layer, layer.lsn, state)
           t == get_value_reconstruct_data(disk, twin.layer, layer.lsn, state)
       IN /\ layer' = r.layer
          /\ vr' = [op |-> "get", before |-> layer, arg |-> state,
                    out |-> ReadOut(r.ok, r.res, r.state, {}), after |-> r.layer]
          /\ twin' = [layer |-> t.layer, out |-> ReadOut(t.ok, t.res, t.state, {})]
    /\ UNCHANGED <<disk, iw, finished, dvars, lvars, tvars, kvars>>

\* collect_keys(key_range, keys) with an empty set
ReadKeys(key_range) ==
    /\ layer.alive
    /\ LET r == collect_keys(disk, layer, key_range, {})
           t == collect_keys(disk, twin.layer, key_range, {})
       IN /\ layer' = r.layer
          /\ vr' = [op |-> "keys", before |-> layer, arg |-> NoOut.state,
                    out |-> ReadOut(r.ok, "", NoOut.state, r.keys), after |-> r.layer]
          /\ twin' = [layer |-> t.layer, out |-> ReadOut(t.ok, "", NoOut.state, t.keys)]
    /\ UNCHANGED <<disk, iw, finished, dvars, lvars, tvars, kvars>>

\* unload(); the twin is left as it is
ReadUnload ==
    /\ layer.alive
    /\ layer' = unload(layer)
    /\ vr' = [op |-> "unload", before |-> layer, arg |-> NoOut.state,
              out |-> vr.out, after |-> layer']
    /\ UNCHANGED <<twin, disk, iw, finished, dvars, lvars, tvars, kvars>>

NextRead ==
    \/ \E id \in LayerIds : ReadNew(id)
    \/ \E key \in LayerKeys, lsn \in ReadStateLsns(layer), img \in ReadImgs(layer) :
          ReadValue(key, lsn, img)
    \/ \E key_range \in ReadRanges : ReadKeys(key_range)
    \/ ReadUnload

SpecRead == InitRead /\ [][NextRead]_vars

---------------------------------------------------------------------------
(* Properties *)

\* two reads give the same answer: both fail, or both return the same bytes
SameRead(a, b) == a.ok = b.ok /\ (a.ok => a.val = b.val)

\* the keys that have a version on the timeline
TlKeys(tl) == { d[1] : d \in DOMAIN tl.puts }

\* key lies in a range of the buffer's pending_deletions
Covered(w, key) ==
    \E i \in DOMAIN w.pending_deletions : RangeContains(w.pending_deletions[i], key)

\* finish() returned Ok(()): the buffer is committed
Committed == pc = "done"

\* the stepwise finish() ends in the state the whole finish() computes
FinishStepsAgree ==
    pc = "done" => LET fin == finish(snap, writer) IN fin.ok /\ fin.val = tline

(* C1: for every rel, blk and lsn, if get_rel_size(rel, lsn) is Ok(n) and  *)
(* blk >= n, get_rel_page_at_lsn(rel, blk, lsn) returns Ok(ZERO_PAGE) and   *)
(* does not read the block key from the timeline.                           *)
C1_ReadBeyondEofIsZeroPage ==
    \A rel \in ReadRels, lsn \in ReadLsns :
        LET n == get_rel_size(tline, rel, lsn) IN
        n.ok =>
            \A blk \in ReadBlks :
                blk >= n.val =>
                    LET page == get_rel_page_at_lsn(tline, rel, blk, lsn) IN
                    /\ page.ok
                    /\ page.val = ZERO_PAGE
                    /\ rel_block_to_key(rel, blk) \notin page.reads

\* a block at or beyond the relation's size whose key holds a page that is
\* not all zeros
C1_Witness ==
    \E rel \in ReadRels, blk \in ReadBlks, lsn \in ReadLsns :
        LET n == get_rel_size(tline, rel, lsn)
            stored == TlGet(tline, rel_block_to_key(rel, blk), lsn)
        IN /\ pc = "done"
           /\ n.ok /\ blk >= n.val
           /\ stored.ok /\ stored.val # ZERO_PAGE
           /\ get_rel_page_at_lsn(tline, rel, blk, lsn).val = ZERO_PAGE

\* what a read of key at lsn >= the buffer's lsn returns once the buffer is
\* committed on top of snap
C2_Expected(key, lsn) ==
    IF key \in DOMAIN writer.pending_updates
    THEN LET v == writer.pending_updates[key] IN
         IF v.t = "Image" THEN Ok(v.img)
         ELSE LET base == TlGet(snap, key, lsn) IN
              IF base.ok /\ ~Covered(writer, key)
              THEN Ok(WalRedo(base.val, v.rec))
              ELSE Err("NoBaseImage")
    ELSE IF Covered(writer, key) THEN Err("KeyNotFound")
    ELSE TlGet(snap, key, lsn)

(* C2: after finish() of a buffer at lsn L returned Ok, a read of any key   *)
(* at lsn' < L returns what it returned before the transaction, and a read  *)
(* at lsn' >= L reflects all of the transaction's puts and range deletes.   *)
C2_CommitVisibleFromLsn ==
    Committed =>
        \A key \in TlKeys(tline), lsn \in ReadLsns :
            IF lsn < writer.lsn
            THEN SameRead(TlGet(tline, key, lsn), TlGet(snap, key, lsn))
            ELSE SameRead(TlGet(tline, key, lsn), C2_Expected(key, lsn))

\* a committed buffer with puts and range deletes that changed what a read
\* of an existing key returns at L, and not what it returns below L
C2_Witness ==
    /\ Committed
    /\ writer.pending_updates # <<>>
    /\ writer.pending_deletions # <<>>
    /\ \E key \in TlKeys(snap) :
          /\ ~SameRead(TlGet(tline, key, writer.lsn), TlGet(snap, key, writer.lsn))
          /\ TlGet(snap, key, writer.lsn).ok
          /\ SameRead(TlGet(tline, key, writer.lsn - 1), TlGet(snap, key, writer.lsn - 1))

C4_Gone(rel, lsn) ==
    LET ex == get_rel_exists(tline, rel, lsn)
        ls == list_rels(tline, rel.spcnode, rel.dbnode, lsn)
    IN /\ ex.ok /\ ex.val = FALSE
       /\ ls.ok /\ rel \notin ls.val

(* C4: after a transaction containing put_rel_drop(rel) commits at L, for   *)
(* every lsn' >= L, absent a later put_rel_creation(rel), get_rel_exists    *)
(* returns false and list_rels does not contain rel.                        *)
C4_DroppedRelIsGone ==
    pc # "finishing" =>
        \A rel \in dropped, lsn \in ReadLsns :
            lsn >= tline.last_record_lsn => C4_Gone(rel, lsn)

(* C4, amended: the same, absent also a drop_dbdir of rel's database        *)
(* committed with or after the drop.                                        *)
C4_DroppedRelIsGoneUnlessDbDropped ==
    pc # "finishing" =>
        \A rel \in dropped_intact, lsn \in ReadLsns :
            lsn >= tline.last_record_lsn => C4_Gone(rel, lsn)

\* the drop of a relation that existed before the transaction is committed
C4_Witness ==
    /\ Committed
    /\ \E rel \in dropped_intact :
          LET before == get_rel_exists(snap, rel, snap.last_record_lsn) IN
          /\ hist.member[rel] = "dropped"
          /\ before.ok /\ before.val
          /\ C4_Gone(rel, writer.lsn)

C6_BlockWritten(rel) ==
    \E blk \in PutBlks : rel_block_to_key(rel, blk) \in DOMAIN writer.pending_updates

C6_InRelDirectory(rel, lsn) ==
    LET ex == get_rel_exists(tline, rel, lsn) IN ex.ok /\ ex.val

C6_InDbDirectory(rel, lsn) ==
    LET dbs == list_relmap_files(tline, lsn) IN dbs.ok /\ RelDb(rel) \in dbs.val

C7_IsLeU32(buf, n) ==
    /\ Len(buf) = 4
    /\ \A i \in 1 .. 4 : buf[i] \in 0 .. 255
    /\ n = buf[1] + 256 * (buf[2] + 256 * (buf[3] + 256 * buf[4]))

\* a drop_dbdir of rel's database is committed at or below lsn
C7_DbDirDropped(rel, lsn) ==
    \E d \in tline.dels :
        d.range = dbdir_key_range(rel.spcnode, rel.dbnode) /\ d.lsn <= lsn

(* C7: at every committed LSN, every member of a RelDirectory has its size  *)
(* key readable, holding 4 bytes; when a buffer is committed the size key   *)
(* of each relation it created, extended or truncated holds the             *)
(* little-endian u32 nblocks of the last of those operations.  This holds   *)
(* after any sequence of put_rel_creation, put_rel_extend,                  *)
(* put_rel_truncation and put_rel_drop, a drop followed by a re-creation    *)
(* included.                                                                *)
C7_MemberHasSizeKey ==
    /\ \A rel \in ReadRels, lsn \in ReadLsns :
          (/\ lsn <= tline.last_record_lsn
           /\ ~C7_DbDirDropped(rel, lsn)
           /\ C6_InRelDirectory(rel, lsn)) =>
              LET buf == TlGet(tline, rel_size_to_key(rel), lsn) IN
              /\ buf.ok
              /\ Len(buf.val) = 4
              /\ get_rel_size(tline, rel, lsn).ok
    /\ Committed =>
          \A rel \in Rels :
              hist.size[rel] >= 0 =>
                  LET buf == TlGet(tline, rel_size_to_key(rel), writer.lsn) IN
                  buf.ok /\ C7_IsLeU32(buf.val, hist.size[rel])

\* a relation dropped and created again by one buffer is a member with its
\* size key readable
C7_Witness ==
    /\ Committed
    /\ \E rel \in Rels :
          /\ hist.member[rel] = "created"
          /\ Covered(writer, rel_size_to_key(rel))
          /\ C6_InRelDirectory(rel, writer.lsn)
          /\ get_rel_size(tline, rel, writer.lsn).ok
          /\ get_rel_size(tline, rel, writer.lsn).val = hist.size[rel]

\* the FSM and visibility-map forks that were never created
C8_NeverCreatedForks ==
    { rel \in ReadRels :
        /\ rel.forknum \in {FSM_FORKNUM, VISIBILITYMAP_FORKNUM}
        /\ rel \notin ever_created }

C8_SizeIsZero(rel, lsn) ==
    LET n == get_rel_size(tline, rel, lsn) IN n.ok /\ n.val = 0

C9_CreationAndSizeReadBack ==
    Committed =>
        \A rel \in Rels, lsn \in ReadLsns :
            lsn >= writer.lsn =>
                LET ex == get_rel_exists(tline, rel, lsn)
                    n == get_rel_size(tline, rel, lsn)
                IN /\ hist.member[rel] = "created" => (ex.ok /\ ex.val)
                   /\ (hist.size[rel] >= 0 /\ ex.ok /\ ex.val) =>
                         (n.ok /\ n.val = hist.size[rel])
                   /\ \A blk \in PutBlks :
                         LET key == rel_block_to_key(rel, blk)
                             page == get_rel_page_at_lsn(tline, rel, blk, lsn)
                         IN (/\ key \in DOMAIN writer.pending_updates
                             /\ writer.pending_updates[key].t = "Image"
                             /\ n.ok /\ blk < n.val) =>
                               (page.ok /\ page.val = writer.pending_updates[key].img)

\* a relation created by an earlier transaction has the size a later
\* committed put_rel_extend or put_rel_truncation gave it
C9_Witness ==
    /\ Committed
    /\ \E rel \in Rels :
          /\ rel \in ever_created
          /\ rel \notin hist.created
          /\ hist.size[rel] >= 0
          /\ get_rel_size(snap, rel, writer.lsn).ok
          /\ get_rel_size(snap, rel, writer.lsn).val # hist.size[rel]
          /\ get_rel_size(tline, rel, writer.lsn).val = hist.size[rel]

(* C10: when a key is put several times into one buffer, the buffer holds   *)
(* only the last value; finish() issues exactly one timeline put per        *)
(* distinct key and hands the timeline that last value.                     *)
C10_LastPutWins ==
    /\ pc \in {"open", "finishing", "done"} =>
          /\ DOMAIN writer.pending_updates = DOMAIN writer.put_last
          /\ \A key \in DOMAIN writer.put_last :
                writer.pending_updates[key] = writer.put_last[key]
    /\ Committed =>
          /\ nput = Cardinality(DOMAIN writer.put_last)
          /\ \A key \in DOMAIN writer.put_last :
                /\ <<key, writer.lsn>> \in DOMAIN tline.puts
                /\ tline.puts[<<key, writer.lsn>>] = writer.put_last[key]

\* a committed buffer into which one key was put twice with different values
C10_Witness ==
    /\ Committed
    /\ writer.put_overwritten # {}
    /\ \A key \in writer.put_overwritten :
          tline.puts[<<key, writer.lsn>>] = writer.put_last[key]

\* the versions and the range deletes the timeline holds at lsn
PutsAt(tl, lsn) == { d \in DOMAIN tl.puts : d[2] = lsn }
DelsAt(tl, lsn) == { d \in tl.dels : d.lsn = lsn }

(* C11: between begin_record(lsn) and finish() no modification made through *)
(* the writer reaches the timeline: begin_record and every put_* / drop_*   *)
(* call leave the timeline, its last-record LSN included, as it is, so no   *)
(* public get function at any LSN sees them; a buffer discarded without     *)
(* finish() leaves the timeline unchanged.                                  *)
C11_BufferInvisibleUntilFinish ==
    [][/\ pc' = "open" => tline' = tline
       /\ (pc = "open" /\ pc' = "idle") => tline' = tline
       /\ pc' = "open" =>
             \A rel \in Rels, lsn \in ReadLsns :
                /\ get_rel_exists(tline', rel, lsn) = get_rel_exists(snap', rel, lsn)
                /\ get_rel_size(tline', rel, lsn) = get_rel_size(snap', rel, lsn)]_vars

\* an open buffer that holds the creation of a relation which the public
\* get functions do not see
C11_Witness ==
    /\ pc = "open"
    /\ writer.pending_updates # <<>>
    /\ \E rel \in hist.created :
          LET ex == get_rel_exists(tline, rel, writer.lsn) IN
          /\ ex.ok /\ ~ex.val
          /\ get(tline, writer, rel_size_to_key(rel)).ok
          /\ ~TlGet(tline, rel_size_to_key(rel), writer.lsn).ok

\* the keys the writer's get() is asked for: the buffered keys, the keys on
\* the timeline, and the directory keys of a database that does not exist
C12_Keys ==
    DOMAIN writer.pending_updates \cup TlKeys(tline)
        \cup {rel_dir_to_key(0, TESTDB + 1)}

(* C12: the writer's get(key) returns the buffered bytes if key is buffered *)
(* as an Image, fails if key is buffered as a WalRecord, and otherwise      *)
(* returns timeline.get(key, last_record_lsn) with the timeline's current   *)
(* last-record LSN, not the buffer's lsn; pending_deletions is not          *)
(* consulted: a key in a buffered delete range reads its pre-delete value.  *)
C12_GetReadsThroughBuffer ==
    pc = "open" =>
        \A key \in C12_Keys :
            LET r == get(tline, writer, key) IN
            IF key \in DOMAIN writer.pending_updates
            THEN IF writer.pending_updates[key].t = "Image"
                 THEN r = Ok(writer.pending_updates[key].img)
                 ELSE ~r.ok
            ELSE /\ r = TlGet(tline, key, tline.last_record_lsn)
                 /\ r = TlGet(snap, key, snap.last_record_lsn)

\* an open buffer with a key buffered as a WalRecord, and a key in a
\* buffered delete range, not buffered itself, that get() still returns
C12_Witness ==
    /\ pc = "open"
    /\ \E key \in DOMAIN writer.pending_updates :
          /\ writer.pending_updates[key].t = "WalRecord"
          /\ ~get(tline, writer, key).ok
    /\ \E key \in TlKeys(tline) \ DOMAIN writer.pending_updates :
          /\ Covered(writer, key)
          /\ get(tline, writer, key).ok

(* C13: finish() issues its timeline calls in a fixed order: every pending  *)
(* update is put at the buffer's lsn, then every pending range delete is    *)
(* issued at the buffer's lsn in the order it was buffered, and only then   *)
(* advance_last_record_lsn(lsn) is called, once; no put follows a delete    *)
(* and nothing follows the advance.                                         *)
C13_FinishOrder ==
    [][/\ tline'.puts # tline.puts =>
             /\ DelsAt(tline, writer.lsn) = {}
             /\ tline'.dels = tline.dels
             /\ tline'.last_record_lsn = tline.last_record_lsn
             /\ \E key \in DOMAIN writer.pending_updates :
                   /\ <<key, writer.lsn>> \notin DOMAIN tline.puts
                   /\ tline' = TlPut(tline, key, writer.lsn, writer.pending_updates[key]).val
       /\ ndel' = ndel + 1 =>
             /\ \A key \in DOMAIN writer.pending_updates :
                   <<key, writer.lsn>> \in DOMAIN tline.puts
             /\ \A i \in 1 .. ndel :
                   [range |-> writer.pending_deletions[i], lsn |-> writer.lsn] \in tline.dels
             /\ tline' = TlDelete(tline, writer.pending_deletions[ndel + 1], writer.lsn).val
       /\ tline'.dels # tline.dels => ndel' = ndel + 1
       /\ tline'.last_record_lsn # tline.last_record_lsn =>
             /\ \A key \in DOMAIN writer.pending_updates :
                   <<key, writer.lsn>> \in DOMAIN tline.puts
             /\ \A i \in DOMAIN writer.pending_deletions :
                   [range |-> writer.pending_deletions[i], lsn |-> writer.lsn] \in tline.dels
             /\ tline' = [tline EXCEPT !.last_record_lsn = writer.lsn]
             /\ pc # "done" /\ pc' = "done"
       /\ pc = "done" => tline' = tline]_vars

\* a finish() that returned Ok after two puts and a range delete
C13_Witness ==
    /\ Committed
    /\ nput >= 2
    /\ ndel >= 1
    /\ Cardinality(PutsAt(tline, writer.lsn)) = nput
    /\ DelsAt(tline, writer.lsn) # {}
    /\ tline.last_record_lsn = writer.lsn

(* C14: if one transaction buffers delete(range) and afterwards put(k, v)   *)
(* with k inside range (put_rel_drop(rel) followed by put_rel_creation(rel, *)
(* n)), the put is still committed: after finish() a read of k at the       *)
(* transaction's LSN returns v.                                             *)
C14_PutAfterDeleteCommitted ==
    Committed =>
        \A rel \in Rels :
            (/\ hist.member[rel] = "created"
             /\ \E i \in DOMAIN writer.pending_deletions :
                   writer.pending_deletions[i] = rel_key_range(rel)) =>
                /\ TlGet(tline, rel_size_to_key(rel), writer.lsn)
                      = Ok(to_le_bytes(hist.size[rel]))
                /\ LET dir == TlGet(tline, rel_dir_to_key(rel.spcnode, rel.dbnode), writer.lsn) IN
                   RelDb(rel) \notin hist.dbdropped =>
                       /\ dir.ok
                       /\ <<rel.relnode, rel.forknum>> \in RelDirectory_des(dir.val).val

\* one committed buffer dropped a relation and then created it: the range
\* delete and the put of the size key are on the timeline at the same LSN
C14_Witness ==
    /\ Committed
    /\ \E rel \in Rels :
          /\ hist.member[rel] = "created"
          /\ <<rel_key_range(rel)>> = writer.pending_deletions
          /\ [range |-> rel_key_range(rel), lsn |-> writer.lsn] \in tline.dels
          /\ <<rel_size_to_key(rel), writer.lsn>> \in DOMAIN tline.puts
          /\ TlGet(tline, rel_size_to_key(rel), writer.lsn) = Ok(to_le_bytes(hist.size[rel]))

\* the members of the four directories as the open buffer's operations read
\* them: through the writer's get()
C15_DbMember(db) ==
    LET buf == get(tline, writer, DBDIR_KEY) IN
    buf.ok /\ DbDirectory_des(buf.val).ok /\ db \in DbDirectory_des(buf.val).val

C15_RelMember(rel) ==
    LET buf == get(tline, writer, rel_dir_to_key(rel.spcnode, rel.dbnode)) IN
    /\ buf.ok /\ RelDirectory_des(buf.val).ok
    /\ <<rel.relnode, rel.forknum>> \in RelDirectory_des(buf.val).val

C15_SlruMember(kind, segno) ==
    LET buf == get(tline, writer, slru_dir_to_key(kind)) IN
    /\ buf.ok /\ SlruSegmentDirectory_des(buf.val).ok
    /\ segno \in SlruSegmentDirectory_des(buf.val).val

C15_TwoPhaseMember(xid) ==
    LET buf == get(tline, writer, TWOPHASEDIR_KEY) IN
    /\ buf.ok /\ TwoPhaseDirectory_des(buf.val).ok
    /\ xid \in TwoPhaseDirectory_des(buf.val).val

\* the call failed with 'already exists' and left the buffer as it was
C15_AlreadyExists(r) ==
    /\ ~r.ok
    /\ r.err = "already exists"
    /\ r.w.pending_updates = writer.pending_updates
    /\ r.w.pending_deletions = writer.pending_deletions

C15_ThreeDirectoriesRefuse ==
    /\ \A rel \in Rels, nblocks \in DirNBlocks :
          C15_RelMember(rel) =>
              C15_AlreadyExists(put_rel_creation(tline, writer, rel, nblocks))
    /\ \A kind \in PutSlruKinds, segno \in Segnos, nblocks \in DirNBlocks :
          C15_SlruMember(kind, segno) =>
              C15_AlreadyExists(put_slru_segment_creation(tline, writer, kind, segno, nblocks))
    /\ \A xid \in Xids, img \in Imgs :
          C15_TwoPhaseMember(xid) =>
              C15_AlreadyExists(put_twophase_file(tline, writer, xid, img))

(* C15: for each of the four directories (DbDirectory via put_relmap_file,  *)
(* RelDirectory via put_rel_creation, SlruSegmentDirectory via              *)
(* put_slru_segment_creation, TwoPhaseDirectory via put_twophase_file) the  *)
(* insertion of an entry that is already a member fails with 'already       *)
(* exists' and leaves pending_updates and pending_deletions unchanged.      *)
C15_RedundantInsertFails ==
    pc = "open" =>
        /\ \A db \in DBs, img \in Imgs :
              C15_DbMember(db) =>
                  C15_AlreadyExists(put_relmap_file(tline, writer, db[1], db[2], img))
        /\ C15_ThreeDirectoriesRefuse

(* C15, amended: this holds for RelDirectory, SlruSegmentDirectory and      *)
(* TwoPhaseDirectory.  put_relmap_file of a database that is already a      *)
(* member of DbDirectory returns Ok: it leaves the DbDirectory as it is and *)
(* buffers the new relmap file image.                                       *)
C15_RedundantInsertFailsButRelmap ==
    pc = "open" =>
        /\ \A db \in DBs, img \in Imgs :
              C15_DbMember(db) =>
                  LET r == put_relmap_file(tline, writer, db[1], db[2], img)
                      key == relmap_file_key(db[1], db[2])
                  IN /\ r.ok
                     /\ r.w.pending_deletions = writer.pending_deletions
                     /\ DOMAIN r.w.pending_updates = DOMAIN writer.pending_updates \cup {key}
                     /\ r.w.pending_updates[key] = Image(img)
                     /\ \A k \in DOMAIN writer.pending_updates \ {key} :
                           r.w.pending_updates[k] = writer.pending_updates[k]
        /\ C15_ThreeDirectoriesRefuse

\* an open buffer that has inserted an xid into the TwoPhaseDirectory and a
\* segment into an SlruSegmentDirectory: inserting either again is refused
C15_Witness ==
    /\ pc = "open"
    /\ \E xid \in Xids, img \in Imgs :
          /\ twophase_file_key(xid) \in DOMAIN writer.pending_updates
          /\ C15_TwoPhaseMember(xid)
          /\ ~put_twophase_file(tline, writer, xid, img).ok
    /\ \E kind \in PutSlruKinds, segno \in Segnos, nblocks \in DirNBlocks :
          /\ slru_segment_size_to_key(kind, segno) \in DOMAIN writer.pending_updates
          /\ C15_SlruMember(kind, segno)
          /\ ~put_slru_segment_creation(tline, writer, kind, segno, nblocks).ok

\* the four directories as buffer w reads them through get()
C16_DbDir(w) ==
    LET buf == get(tline, w, DBDIR_KEY) IN
    IF buf.ok THEN DbDirectory_des(buf.val) ELSE buf

C16_RelDir(w, spcnode, dbnode) ==
    LET buf == get(tline, w, rel_dir_to_key(spcnode, dbnode)) IN
    IF buf.ok THEN RelDirectory_des(buf.val) ELSE buf

C16_SlruDir(w, kind) ==
    LET buf == get(tline, w, slru_dir_to_key(kind)) IN
    IF buf.ok THEN SlruSegmentDirectory_des(buf.val) ELSE buf

C16_TwoPhaseDir(w) ==
    LET buf == get(tline, w, TWOPHASEDIR_KEY) IN
    IF buf.ok THEN TwoPhaseDirectory_des(buf.val) ELSE buf

\* the drop returned Ok and pushed key_range onto the buffer's range deletes
C16_OkWithDelete(r, key_range) ==
    /\ r.ok
    /\ r.w.pending_deletions = Append(writer.pending_deletions, key_range)

(* C16: a drop that targets an entry missing from its directory             *)
(* (put_rel_drop, drop_dbdir, drop_slru_segment, drop_twophase_file)        *)
(* returns Ok, leaves the directory's membership unchanged, and still       *)
(* appends the range delete for the dropped object's key range to the       *)
(* buffer.                                                                  *)
C16_DropOfMissingEntry ==
    pc = "open" =>
        /\ \A rel \in Rels :
              LET dir == C16_RelDir(writer, rel.spcnode, rel.dbnode)
                  r == put_rel_drop(tline, writer, rel)
              IN (dir.ok /\ <<rel.relnode, rel.forknum>> \notin dir.val) =>
                    /\ C16_OkWithDelete(r, rel_key_range(rel))
                    /\ C16_RelDir(r.w, rel.spcnode, rel.dbnode) = dir
        /\ \A db \in DBs :
              LET dir == C16_DbDir(writer)
                  r == drop_dbdir(tline, writer, db[1], db[2])
              IN (dir.ok /\ db \notin dir.val) =>
                    /\ C16_OkWithDelete(r, dbdir_key_range(db[1], db[2]))
                    /\ C16_DbDir(r.w) = dir
        /\ \A kind \in PutSlruKinds, segno \in Segnos :
              LET dir == C16_SlruDir(writer, kind)
                  r == drop_slru_segment(tline, writer, kind, segno)
              IN (dir.ok /\ segno \notin dir.val) =>
                    /\ C16_OkWithDelete(r, slru_segment_key_range(kind, segno))
                    /\ C16_SlruDir(r.w, kind) = dir
        /\ \A xid \in Xids :
              LET dir == C16_TwoPhaseDir(writer)
                  r == drop_twophase_file(tline, writer, xid)
              IN (dir.ok /\ xid \notin dir.val) =>
                    /\ C16_OkWithDelete(r, twophase_key_range(xid))
                    /\ C16_TwoPhaseDir(r.w) = dir

\* an open buffer whose only operation is the drop of a two-phase file that
\* was never a member: the range delete is buffered, the directory is put
\* back with the members it had
C16_Witness ==
    /\ pc = "open"
    /\ \E xid \in Xids :
          LET before == TlGet(snap, TWOPHASEDIR_KEY, snap.last_record_lsn) IN
          /\ before.ok
          /\ xid \notin TwoPhaseDirectory_des(before.val).val
          /\ twophase_file_key(xid) \notin DOMAIN writer.pending_updates
          /\ writer.pending_deletions = <<twophase_key_range(xid)>>
          /\ TWOPHASEDIR_KEY \in DOMAIN writer.pending_updates
          /\ C16_TwoPhaseDir(writer) = TwoPhaseDirectory_des(before.val)

----------------------------------------------------------------------------
(* Image layers *)

\* the handle has no book open, or the book it opened is the file now at its
\* path
BookCurrent(l) ==
    l.book.open =>
        /\ path(l) \in DOMAIN disk.dir
        /\ l.book.ino = disk.dir[path(l)]
        /\ l.book.gen = disk.files[l.book.ino].gen

\* what a read of key through the handle returns
ReadImage(l, key) ==
    get_value_reconstruct_data(disk, l, l.lsn,
                               ValueReconstructState(key, l.lsn, NoImg))

\* C17: a handle on the file that put_image calls with distinct keys and a
\* successful finish() produced yields for every key put exactly the bytes
\* put, through get_value_reconstruct_data, and collect_keys over the layer's
\* key range yields exactly the set of the keys put.
C17_ImageLayerRoundTrip ==
    (layer.alive /\ Intact(path(layer)) /\ BookCurrent(layer)) =>
        LET puts == finished[path(layer)].puts
            keys == collect_keys(disk, layer, layer.key_range, {})
        IN /\ \A k \in DOMAIN puts :
                  /\ ReadImage(layer, k).ok
                  /\ ReadImage(layer, k).res = "Complete"
                  /\ ReadImage(layer, k).state.img = SomeImg(layer.lsn, puts[k])
           /\ keys.ok
           /\ keys.keys = DOMAIN puts

\* a loaded handle on a finished file that holds two images of different
\* lengths, the longer one first
C17_Witness ==
    /\ layer.alive /\ layer.loaded
    /\ Intact(path(layer)) /\ BookCurrent(layer)
    /\ LET puts == finished[path(layer)].puts IN
       /\ Cardinality(DOMAIN puts) = 2
       /\ \E k1, k2 \in DOMAIN puts :
             /\ Len(puts[k1]) > Len(puts[k2])
             /\ layer.index[k1] < layer.index[k2]

\* a layer file as a completed finish() leaves it
Complete(file) ==
    /\ file.trailer
    /\ {VALUES_CHAPTER, INDEX_CHAPTER, SUMMARY_CHAPTER} \subseteq DOMAIN file.chapters

\* C18: whenever the construction of an image layer has ended without a
\* completed finish() (the writer was dropped while writing, new() failed
\* after creating the file, put_image or finish() failed), the layer file is
\* no longer on disk: with no writer at work, no partial file is at any path.
C18_NoTornFileLeftBehind ==
    ~iw.alive => \A p \in DOMAIN disk.dir : Complete(disk.files[disk.dir[p]])

\* C19: once finish() has completed for an image layer file, no writer
\* operation (ImageLayerWriter::new for the same tenant, timeline, key_range
\* and lsn, put_image, finish, the drop of a writer) modifies, truncates or
\* unlinks the file: until ImageLayer::delete() removes it, the file at the
\* path is the one finish() completed.
C19_WriteOnce ==
    \A p \in DOMAIN finished : Intact(p)

\* the handle is not loaded and a complete layer file is at its path
LoadableFile(l) ==
    /\ l.alive /\ ~l.loaded
    /\ path(l) \in DOMAIN disk.dir
    /\ Complete(disk.files[disk.dir[path(l)]])
    /\ BookCurrent(l)

\* the summary stored in the file at the handle's path
FileSummary(l) ==
    Summary_des(disk.files[disk.dir[path(l)]].chapters[SUMMARY_CHAPTER])

\* load() and the reads through the handle fail, and leave it unloaded with
\* an empty index
FailsToLoad(l, e) ==
    /\ ~load(disk, l).ok
    /\ load(disk, l).err = e
    /\ ~load(disk, l).layer.loaded
    /\ load(disk, l).layer.index = <<>>
    /\ \A key \in LayerKeys : RangeContains(l.key_range, key) => ~ReadImage(l, key).ok
    /\ ~collect_keys(disk, l, l.key_range, {}).ok

\* C20: loading a handle made by ImageLayer::new whose tenant, timeline,
\* key_range or lsn differ from the summary stored in the file fails with an
\* error and leaves the handle unloaded with an empty index, and every later
\* load or read fails the same way; a handle made by new_for_path whose path
\* has another file name than its fields give only warns and loads.
C20_LoadMismatch ==
    /\ (LoadableFile(layer) /\ layer.conf /\ FileSummary(layer).ok
            /\ FileSummary(layer).val # Summary(layer)) =>
          /\ FailsToLoad(layer, "in-file summary does not match expected summary")
          /\ FailsToLoad(load(disk, layer).layer,
                         "in-file summary does not match expected summary")
          /\ load(disk, load(disk, layer).layer).layer = load(disk, layer).layer
    /\ (LoadableFile(layer) /\ ~layer.conf
            /\ path(layer).file_name # filename(layer)) =>
          /\ load(disk, layer).ok
          /\ load(disk, layer).layer.loaded
          /\ load(disk, layer).layer.warned
    /\ (layer.alive /\ layer.warned) => ~layer.conf

\* a handle made by ImageLayer::new that a load has left unloaded, its book
\* open on a file with another summary
C20_Witness ==
    /\ LoadableFile(layer) /\ layer.conf
    /\ layer.book.open
    /\ layer.index = <<>>
    /\ FileSummary(layer).ok
    /\ FileSummary(layer).val # Summary(layer)

\* a handle made by new_for_path that loaded with the warning
C20_WarnedWitness ==
    /\ layer.alive /\ ~layer.conf /\ layer.loaded /\ layer.warned
    /\ path(layer).file_name # filename(layer)

\* C21: however the calls of get_value_reconstruct_data, collect_keys and
\* dump of several threads on one handle interleave, the file is opened and
\* the index chapter is read at most once, and exactly once when the handle
\* is loaded; a caller works on inner only with loaded = true and the whole
\* index; and no step on a loaded handle opens the file or reads the index.
C21_LoadOnce ==
    /\ [](/\ nopen <= 1 /\ nindex <= 1
          /\ (layer.alive /\ layer.loaded) => (nopen = 1 /\ nindex = 1)
          /\ \A t \in Threads : thr[t].pc = "body" =>
                /\ mutex = t
                /\ layer.loaded
                /\ layer.index = WrittenLayer.index)
    /\ [][(layer.loaded /\ layer'.loaded) =>
             (nopen' = nopen /\ nindex' = nindex /\ layer' = layer)]_vars

\* one thread works on the loaded index while the other waits for the guard
C21_Witness ==
    /\ layer.loaded
    /\ nopen = 1 /\ nindex = 1
    /\ \E t, u \in Threads :
          /\ thr[t].pc = "body" /\ thr[u].pc = "lock"
          /\ thr[t].op # thr[u].op

---------------------------------------------------------------------------
(* Background threads *)

\* C22: checkpoint_loop calls checkpoint_iteration only if the tenant state
\* after the cycle's checkpoint_period sleep is Active: when the tenant left
\* Active during the sleep, the loop makes no call.
C22_CheckpointOnlyWhenActiveAfterSleep ==
    ck.called \subseteq {"Active"}

\* C23: gc_loop calls gc_iteration only in a cycle at whose start it saw the
\* tenant Active and only with gc_horizon > 0; with gc_horizon = 0 it never
\* calls it; every call passes (None, gc_horizon, pitr_interval, false).
C23_GcIterationGuarded ==
    /\ \A c \in gc_calls :
          /\ c.observed = "Active"
          /\ tenant_conf.gc_horizon > 0
          /\ c.args = <<"None", tenant_conf.gc_horizon, tenant_conf.pitr_interval, FALSE>>
    /\ tenant_conf.gc_horizon = 0 => gc_calls = {}
    /\ gc.pc = "horizon" => gc.observed = "Active"

\* gc_iteration was called, and the thread went on to a second cycle
C23_Witness ==
    /\ gc_calls # {}
    /\ gc.cycles > 0
    /\ gc.pc = "horizon"

\* C24: when the tenant leaves Active while gc_loop is in its sleep phase
\* and stays so, the loop begins at most one more one-second sleep, calls
\* gc_iteration no more, and exits; while the tenant stays Active the sleep
\* phase of a cycle is gc_period.as_secs() one-second sleeps.
C24_GcSleepPhase ==
    /\ []((inact.on /\ inact.insleep) => (inact.sleeps <= 1 /\ inact.calls = 0))
    /\ []((gc.pc = "top" /\ gc.cycles > 0 /\ gc.stayed) =>
             gc.nsleeps = as_secs(tenant_conf.gc_period))
    /\ ((inact.on /\ inact.insleep) ~>
           (tenant_state = "Active" \/ gc.pc \in {"stopped", "failed", "panicked"}))

\* the tenant left Active while the thread was about to sleep: the thread
\* slept once more and stopped without another call
C24_Witness ==
    /\ inact.on /\ inact.insleep
    /\ inact.sleeps = 1
    /\ gc.pc = "stopped"
    /\ gc.sleep_time > 0

---------------------------------------------------------------------------
(* Key ranges *)

\* the block keys and the size key of a relation fork
RelKeys(rel) == { rel_block_to_key(rel, blk) : blk \in KeyBlks } \cup {rel_size_to_key(rel)}

\* C25: for every relation tag, forknum 255 included, rel_key_range(rel) is
\* a non-empty half-open range that contains every block key and the size
\* key of rel, and no block or size key of another relation or of another
\* fork of the same relation.
C25_RelKeyRangeCoversFork ==
    kout.fn = "rel_key_range" =>
        /\ kout.res.ok
        /\ KeyLt(kout.res.val.start, kout.res.val.end)
        /\ \A k \in RelKeys(kin.rel) : RangeContains(kout.res.val, k)
        /\ \A other \in KeyRels \ {kin.rel} :
              \A k \in RelKeys(other) : ~RangeContains(kout.res.val, k)

\* C27: for every xid, twophase_key_range(xid) has an upper bound above its
\* lower bound in field-major order, contains twophase_file_key(xid) and the
\* twophase_file_key of no other xid; at xid = 0xFFFFFFFF the upper bound is
\* (2,0,0,0,1,0).
C27_TwophaseKeyRange ==
    kout.fn = "twophase_key_range" =>
        /\ KeyLt(kout.res.val.start, kout.res.val.end)
        /\ RangeContains(kout.res.val, twophase_file_key(kin.xid))
        /\ \A x \in KeyXids \cup {(kin.xid + 1) % (U32_MAX + 1), 2, U32_MAX \div 2} :
              x # kin.xid => ~RangeContains(kout.res.val, twophase_file_key(x))
        /\ kin.xid = U32_MAX => kout.res.val.end = Key(2, 0, 0, 0, 1, 0)

\* the range of the largest xid
C27_Witness ==
    /\ kout.fn = "twophase_key_range"
    /\ kin.xid = U32_MAX
    /\ kout.res.val = KeyRange(Key(2, 0, 0, 0, 0, U32_MAX), Key(2, 0, 0, 0, 1, 0))

\* C28: dbdir_key_range(spcnode, dbnode) contains the block keys and the
\* size key of every relation of that database, for every relnode, forknum
\* and blknum up to their largest values, and no key of another database.
C28_DbdirKeyRangeCoversDatabase ==
    kout.fn = "dbdir_key_range" =>
        \A rel \in KeyRels :
            \A k \in RelKeys(rel) :
                RangeContains(kout.res.val, k) <=> RelDb(rel) = RelDb(kin.rel)

\* C26: the range delete of drop_slru_segment(kind, segno), that is
\* slru_segment_key_range(kind, segno), contains the size key and every
\* block key of the segment, so once the drop is committed at LSN L (by a
\* buffer that does not create the segment again) the size key of the
\* segment is not readable at L.
C26_SlruDropCoversSegment ==
    Committed =>
        \A kind \in PutSlruKinds, segno \in Segnos :
            LET range == slru_segment_key_range(kind, segno) IN
            (/\ [range |-> range, lsn |-> writer.lsn] \in tline.dels
             /\ slru_segment_size_to_key(kind, segno) \notin DOMAIN writer.pending_updates) =>
                /\ RangeContains(range, slru_segment_size_to_key(kind, segno))
                /\ \A blk \in KeyBlks : RangeContains(range, slru_block_to_key(kind, segno, blk))
                /\ ~TlGet(tline, slru_segment_size_to_key(kind, segno), writer.lsn).ok

---------------------------------------------------------------------------
(* Directories within one transaction *)

\* C29: the membership changes one transaction makes to a directory
\* accumulate: each change reads the directory image the change before it
\* buffered, so the directory committed by finish() has every relation whose
\* last change in the transaction is a put_rel_creation and none whose last
\* change is a put_rel_drop (two creations in one database leave both
\* relations in list_rels; a creation followed by a drop leaves none).
C29_DirectoryChangesAccumulate ==
    Committed =>
        \A rel \in Rels :
            LET rels == list_rels(tline, rel.spcnode, rel.dbnode, writer.lsn) IN
            RelDb(rel) \notin hist.dbdropped =>
                /\ hist.member[rel] = "created" => (rels.ok /\ rel \in rels.val)
                /\ hist.member[rel] = "dropped" => (rels.ok /\ rel \notin rels.val)

\* one committed transaction created two relations of one database
C29_Witness ==
    /\ Committed
    /\ \E r1, r2 \in Rels :
          /\ r1 # r2 /\ RelDb(r1) = RelDb(r2)
          /\ hist.member[r1] = "created" /\ hist.member[r2] = "created"
          /\ LET rels == list_rels(tline, r1.spcnode, r1.dbnode, writer.lsn)
             IN rels.ok /\ {r1, r2} \subseteq rels.val

\* one committed transaction created a relation and dropped it again
C29_CreatedAndDropped ==
    /\ Committed
    /\ \E rel \in Rels :
          /\ rel \in hist.created
          /\ hist.member[rel] = "dropped"

---------------------------------------------------------------------------
(* The index of an image layer writer *)

RECURSIVE BlobsLen(_, _)
\* the length of the blobs of a set of keys the writer put
BlobsLen(w, keys) ==
    IF keys = {} THEN 0
    ELSE LET k == CHOOSE x \in keys : TRUE
         IN Len(write_blob(w.puts[k])) + BlobsLen(w, keys \ {k})

\* the keys whose blobs the writer wrote before the blob at an offset
PutBefore(w, off) == { k \in DOMAIN w.index : w.index[k] < off }

\* C30: put_image panics on a key outside the writer's key_range, on a
\* key that was put before and after finish(), and accepts no such key
\* whatever the write does; so the index of every writer holds only keys of
\* key_range, each key once (every blob that advanced end_offset has its own
\* entry), and the offset of a key is the length of the blobs written
\* before it, which makes the offsets of two keys differ.
C30_PutImageGuardsIndex ==
    /\ \A key \in DOMAIN iw.index :
          /\ RangeContains(iw.key_range, key)
          /\ iw.index[key] = BlobsLen(iw, PutBefore(iw, iw.index[key]))
          /\ iw.index[key] < iw.end_offset
          /\ \A other \in DOMAIN iw.index : other # key => iw.index[other] # iw.index[key]
    /\ DOMAIN iw.puts = DOMAIN iw.index
    /\ iw.end_offset = BlobsLen(iw, DOMAIN iw.index)
    /\ iw.alive =>
          \A key \in LayerKeys :
             (\/ ~RangeContains(iw.key_range, key)
              \/ key \in DOMAIN iw.index
              \/ ~iw.values_writer) =>
                 /\ put_image(disk, iw, key, LayerImg(key), "none").kind = "panic"
                 /\ \A fail \in PutFails :
                       put_image(disk, iw, key, LayerImg(key), fail).kind # "ok"

\* a writer that put two keys at increasing offsets and is offered a key it
\* already has and a key outside its range
C30_Witness ==
    /\ iw.alive /\ iw.values_writer
    /\ \E k1, k2 \in DOMAIN iw.index : 0 = iw.index[k1] /\ iw.index[k1] < iw.index[k2]
    /\ \E key \in LayerKeys : ~RangeContains(iw.key_range, key)

\* a writer that finished and is still held
C30_FinishedWriter == iw.alive /\ ~iw.values_writer /\ iw.index # <<>>

---------------------------------------------------------------------------
(* Reads of a handle *)

\* the call found a cached image that is recent enough
CachedRead == vr.op = "get" /\ vr.arg.img.some /\ vr.arg.img.lsn >= vr.before.lsn

\* the call had to look into the layer
LayerRead == vr.op = "get" /\ ~(vr.arg.img.some /\ vr.arg.img.lsn >= vr.before.lsn)

\* the images put into the file a handle stands for
PutsOf(l) == IF path(l) \in DOMAIN finished THEN finished[path(l)].puts ELSE <<>>

\* C31: get_value_reconstruct_data called with state.img = Some((cached_lsn,
\* _)) and cached_lsn >= layer.lsn returns Complete, sets state.lsn to
\* cached_lsn, leaves state.img and state.key unchanged and leaves the
\* handle as it was: nothing is loaded, no file is opened, an Unloaded
\* handle stays Unloaded.
C31_CachedImageNoIo ==
    CachedRead =>
        /\ vr.out.ok /\ vr.out.res = "Complete"
        /\ vr.out.state = [vr.arg EXCEPT !.lsn = vr.arg.img.lsn]
        /\ vr.after = vr.before
        /\ layer = vr.before

\* a cached read on an Unloaded handle whose file does not exist
C31_Witness ==
    /\ CachedRead
    /\ ~vr.before.loaded /\ ~vr.before.book.open
    /\ path(vr.before) \notin DOMAIN disk.dir
    /\ vr.arg.lsn # vr.arg.img.lsn

\* C32: without a recent enough cached image, a get_value_reconstruct_data
\* that returns Ok returns Complete with state.img = (layer.lsn, the blob
\* put for the key) if state.key is in the layer's index and Missing with
\* state.img unchanged if it is not, with state.lsn = layer.lsn in both
\* cases; it returns Ok when the layer's file is one a writer finished, and
\* leaves the state alone when it fails.  Whenever the result is Complete,
\* state.img is present with an lsn >= layer.lsn that state.lsn equals.
C32_LayerReadResult ==
    /\ LayerRead =>
          LET l == vr.before
              key == vr.arg.key
          IN /\ path(l) \in DOMAIN finished <=> vr.out.ok
             /\ ~vr.out.ok => vr.out.state = vr.arg
             /\ vr.out.ok =>
                   /\ vr.out.res \in {"Complete", "Missing"}
                   /\ vr.out.res = "Complete" <=> key \in DOMAIN PutsOf(l)
                   /\ vr.out.res = "Complete" =>
                         vr.out.state.img = SomeImg(l.lsn, PutsOf(l)[key])
                   /\ vr.out.res = "Missing" => vr.out.state.img = vr.arg.img
                   /\ vr.out.state.lsn = l.lsn
                   /\ vr.out.state.key = key
    /\ (vr.op = "get" /\ vr.out.res = "Complete") =>
          /\ vr.out.state.img.some
          /\ vr.out.state.img.lsn >= vr.before.lsn
          /\ vr.out.state.img.lsn = vr.out.state.lsn

\* a key missing from the index, read with a state that holds an image
\* older than the layer and an lsn above the layer's
C32_Witness ==
    /\ LayerRead
    /\ vr.out.ok /\ vr.out.res = "Missing"
    /\ vr.arg.img.some
    /\ vr.arg.lsn > vr.before.lsn
    /\ PutsOf(vr.before) # <<>>

\* a key of the index, read with such a state
C32_CompleteRead ==
    /\ LayerRead
    /\ vr.out.ok /\ vr.out.res = "Complete"
    /\ vr.arg.img.some
    /\ vr.arg.lsn > vr.before.lsn

\* C33: every read (get_value_reconstruct_data, collect_keys) of a handle
\* returns what the same read returns on the twin handle, which got the
\* same reads and no unload().  unload() leaves the handle alive, Unloaded
\* and with an empty index and changes nothing else; a read that goes to
\* the layer and returns Ok leaves the handle Loaded with the index of the
\* file.
C33_UnloadIsTransparent ==
    /\ vr.op \in {"get", "keys"} => vr.out = twin.out
    /\ vr.op = "unload" =>
          /\ layer = vr.after
          /\ vr.after = [vr.before EXCEPT !.loaded = FALSE, !.index = <<>>]
          /\ vr.after.alive
    /\ ((LayerRead \/ vr.op = "keys") /\ vr.out.ok) =>
          /\ vr.after.loaded
          /\ DOMAIN vr.after.index = DOMAIN PutsOf(vr.before)
          /\ vr.out.keys \subseteq DOMAIN PutsOf(vr.before)

\* a handle that was loaded and unloaded finds the image of a key again,
\* while its twin still holds the index of the first load
C33_Witness ==
    /\ LayerRead
    /\ ~vr.before.loaded /\ vr.before.book.open /\ vr.before.index = <<>>
    /\ vr.out.ok /\ vr.out.res = "Complete"
    /\ vr.after.loaded /\ vr.after.index # <<>>
    /\ twin.out = vr.out

\* collect_keys after an unload
C33_KeysAfterUnload ==
    /\ vr.op = "keys"
    /\ ~vr.before.loaded /\ vr.before.book.open
    /\ vr.out.ok /\ vr.out.keys # {}

---------------------------------------------------------------------------
(* The end of the background threads *)

\* a loop starts an iteration only from the test at the top of the loop,
\* with the tenant Active at that test, and a loop that returned stays
\* returned
IterationsStartAtTop ==
    /\ (ck'.pc = "sleep" /\ ck.pc # "sleep") => (ck.pc = "top" /\ tenant_state = "Active")
    /\ (gc'.pc = "horizon" /\ gc.pc # "horizon") => (gc.pc = "top" /\ tenant_state = "Active")
    /\ ck.pc \in {"stopped", "failed"} => ck'.pc = ck.pc
    /\ gc.pc \in {"stopped", "failed", "panicked"} => gc'.pc = gc.pc
    /\ (ck.pc = "top" /\ tenant_state # "Active" /\ ck'.pc # "top") => ck'.pc = "stopped"
    /\ (gc.pc = "top" /\ tenant_state # "Active" /\ gc'.pc # "top") => gc'.pc = "stopped"

C34_FailedInFlight ==
    /\ tenant_state # "Active"
    /\ ck.pc = "failed"
    /\ ck.called \cap {"Idle", "Stopping"} # {}

---------------------------------------------------------------------------
(* The keys of distinct objects *)

\* an object whose arguments are values PostgreSQL uses: a tablespace, a
\* relation number and an xid other than 0, a block number other than
\* 0xFFFFFFFF
ValidObject(o) ==
    /\ o.builder \in {"relmap_file_key", "rel_dir_to_key"} => o.rel.spcnode # 0
    /\ o.builder \in {"rel_block_to_key", "rel_size_to_key"} => o.rel.relnode # 0
    /\ o.builder \in {"rel_block_to_key", "slru_block_to_key"} => o.blknum # U32_MAX
    /\ o.builder = "twophase_file_key" => o.xid # 0

---------------------------------------------------------------------------
(* What a drop of an SLRU segment leaves alone *)

\* the committed buffer dropped the segment
SlruDropCommitted(kind, segno) ==
    [range |-> slru_segment_key_range(kind, segno), lsn |-> writer.lsn] \in tline.dels

\* the committed buffer neither created nor dropped the segment
SlruUntouched(kind, segno) ==
    /\ ~SlruDropCommitted(kind, segno)
    /\ slru_segment_size_to_key(kind, segno) \notin DOMAIN writer.pending_updates

\* the members of the SlruSegmentDirectory of kind that a reader of tl sees
\* at lsn
SlruMembers(tl, kind, lsn) ==
    LET buf == TlGet(tl, slru_dir_to_key(kind), lsn) IN
    IF buf.ok THEN SlruSegmentDirectory_des(buf.val) ELSE buf

\* C36: a committed drop_slru_segment(kind, segno) leaves what does not
\* belong to the segment as it was: the SlruSegmentDirectory of the kind is
\* readable at the drop's LSN and every other segment is a member of it if
\* it was one before, and the size key and the block keys of every other
\* segment read at the drop's LSN as they did before the drop.
C36_SlruDropLeavesOthers ==
    Committed =>
        \A kind \in PutSlruKinds, segno \in Segnos :
            SlruDropCommitted(kind, segno) =>
                /\ SlruMembers(tline, kind, writer.lsn).ok
                /\ \A segno2 \in Segnos \ {segno} :
                      SlruUntouched(kind, segno2) =>
                          /\ segno2 \in SlruMembers(tline, kind, writer.lsn).val
                                <=> segno2 \in SlruMembers(snap, kind, writer.lsn).val
                          /\ TlGet(tline, slru_segment_size_to_key(kind, segno2), writer.lsn)
                                = TlGet(snap, slru_segment_size_to_key(kind, segno2), writer.lsn)
                          /\ \A blk \in ReadBlks :
                                TlGet(tline, slru_block_to_key(kind, segno2, blk), writer.lsn)
                                   = TlGet(snap, slru_block_to_key(kind, segno2, blk), writer.lsn)

\* the directory and the membership of the other segments alone
C36_DirectoryPart ==
    Committed =>
        \A kind \in PutSlruKinds, segno \in Segnos :
            SlruDropCommitted(kind, segno) =>
                /\ SlruMembers(tline, kind, writer.lsn).ok
                /\ \A segno2 \in Segnos \ {segno} :
                      SlruUntouched(kind, segno2) =>
                          (segno2 \in SlruMembers(tline, kind, writer.lsn).val
                              <=> segno2 \in SlruMembers(snap, kind, writer.lsn).val)

\* a drop of segment 0 was committed while segment 1 was a member
C36_DroppedBesideMember ==
    /\ Committed
    /\ SlruDropCommitted("Clog", 0)
    /\ SlruUntouched("Clog", 1)
    /\ 1 \in SlruMembers(tline, "Clog", writer.lsn).val

---------------------------------------------------------------------------
(* A finish() that fails *)

\* C37: after finish() returned an error, part-way through its timeline
\* calls included, the transaction has no effect: the last-record LSN is
\* the one before the transaction and a read of any key at any LSN returns
\* what it returned before the transaction.
C37_FailedFinishHasNoEffect ==
    pc = "failed" =>
        /\ tline.last_record_lsn = snap.last_record_lsn
        /\ \A key \in TlKeys(tline), lsn \in ReadLsns :
              SameRead(TlGet(tline, key, lsn), TlGet(snap, key, lsn))

\* what holds of it: the last-record LSN is unchanged, and so is every read
\* at an LSN up to the last-record LSN
C37_NoEffectUpToLastRecord ==
    pc = "failed" =>
        /\ tline.last_record_lsn = snap.last_record_lsn
        /\ \A key \in TlKeys(tline), lsn \in ReadLsns :
              lsn <= tline.last_record_lsn =>
                  SameRead(TlGet(tline, key, lsn), TlGet(snap, key, lsn))

\* finish() failed after a put reached the timeline
C37_FailedPartWay ==
    /\ pc = "failed"
    /\ tline.puts # snap.puts

\* a later transaction was committed at the LSN of the failed one, and a
\* reader at that LSN gets a value that only the failed one put
C37_LeftoverCommitted ==
    /\ Committed
    /\ \E key \in TlKeys(tline) :
          /\ <<key, writer.lsn>> \in DOMAIN tline.puts
          /\ key \notin DOMAIN writer.pending_updates
          /\ ~Covered(writer, key)
          /\ TlGet(tline, key, writer.lsn).ok
          /\ ~SameRead(TlGet(tline, key, writer.lsn), TlGet(snap, key, snap.last_record_lsn))


\* the relations list_rels returns for the database of rel at the last-record
\* LSN of timeline tl; none if the directory cannot be read
RelMembers(tl, db) ==
    LET rels == list_rels(tl, db[1], db[2], tl.last_record_lsn) IN
    IF rels.ok THEN rels.val ELSE {}

\* no put_rel_drop and no put_rel_creation of rel succeeded on the buffer, and
\* no drop_dbdir of its database
NotDroppedOnBuffer(rel) ==
    /\ hist.member[rel] = "none"
    /\ rel \notin hist.created
    /\ RelDb(rel) \notin hist.dbdropped

(* C38: a relation that is a member of RelDirectory[spc,db] at a committed  *)
(* LSN is still a member after every later commit whose buffer made no      *)
(* put_rel_drop of the relation and no drop_dbdir(spc, db); no other writer *)
(* operation, put_dbdir_creation(spc, db) on an existing RelDirectory       *)
(* included, removes relations from the directory.                          *)
C38_MembersStayUntilDropped ==
    Committed =>
        \A rel \in Rels :
            (/\ rel \in RelMembers(snap, RelDb(rel))
             /\ NotDroppedOnBuffer(rel))
                => rel \in RelMembers(tline, RelDb(rel))

\* a commit after which a relation of the directory is still a member
C38_MemberKept ==
    /\ Committed
    /\ \E rel \in Rels :
          /\ rel \in RelMembers(snap, RelDb(rel))
          /\ NotDroppedOnBuffer(rel)
          /\ rel \in RelMembers(tline, RelDb(rel))
          /\ tline.last_record_lsn > snap.last_record_lsn

\* a commit that emptied a directory with members without dropping anything:
\* the directory is readable before and after, a member is gone
C38_DirectoryReset ==
    /\ Committed
    /\ \E rel \in Rels :
          /\ rel \in RelMembers(snap, RelDb(rel))
          /\ NotDroppedOnBuffer(rel)
          /\ list_rels(tline, rel.spcnode, rel.dbnode, tline.last_record_lsn).ok
          /\ rel \notin RelMembers(tline, RelDb(rel))
          /\ get_rel_size(tline, rel, tline.last_record_lsn).ok

====
